---- MODULE Spec2Model ----
(***************************************************************************)
(* SmartCompress FS: the compression-lifecycle engine.                     *)
(*                                                                         *)
(*   compressed_marker.py  CompressedMarker      (the metadata ledger)     *)
(*   tanisha_module.py     TanishaModule         (the priority scanner)    *)
(*   smartcompress.py      SmartCompressFS       (compression, monitor)    *)
(*   decompression.py      DecompressionManager  (decompression)           *)
(*                                                                         *)
(* A path is the sequence of its dot-separated components, so that         *)
(* f"{original_path}.{method}" is Append(original_path, method) and        *)
(* os.path.splitext(path)[1] is the last component.  A file is a record    *)
(* of its content and its two timestamps; a content is raw data or the     *)
(* gzip / zlib stream of raw data.  The clock `now` counts ticks of        *)
(* DaysPerTick days.                                                       *)
(***************************************************************************)
EXTENDS Integers, Sequences, FiniteSets, TLC

VARIABLES
    fs,                 \* the directory tree: path -> file, for the paths that exist
    metadata_doc,       \* compression_metadata.json: "valid", "absent" or "unparsable"
    compressed_files,   \* metadata["compressed_files"] of a valid document
    now,                \* time.time()
    compression_method, \* SmartCompressFS.compression_method
    disk,               \* what psutil.disk_usage answers: [total, used], or "error"
    disk_threshold,     \* SmartCompressFS.disk_threshold, in percent
    monitoring,         \* SmartCompressFS.monitoring
    monitor_thread,     \* SmartCompressFS.monitor_thread: None, or a thread of threads
    threads,            \* the threads started on _monitor_loop, each at its position
    calls,              \* per context, the call it is inside and its local variables
    last                \* the last call: its arguments and what it returned

vars == <<fs, metadata_doc, compressed_files, now, compression_method,
          disk, disk_threshold, monitoring, monitor_thread, threads, calls, last>>

---------------------------------------------------------------------------
(* Bounds of the model *)

MaxNow == 1
MaxData == 2
MaxCounter == 1
DaysPerTick == 20
MaxTotal == 10

---------------------------------------------------------------------------
(* Paths *)

report_txt == <<"report", "txt">>
notes_log == <<"notes", "log">>

Originals == {report_txt, notes_log}

CounterStr == <<"1", "2", "3", "4">>
BackupStr == <<"backup_0", "backup_1", "backup_2", "backup_3", "backup_4">>

Methods == {"gzip", "zlib"}
ConfigurableMethods == {"gzip", "zlib", "bz2"}

\* os.path.splitext(path)[1].lower()
splitext(path) == IF Len(path) > 1 THEN path[Len(path)] ELSE ""

---------------------------------------------------------------------------
(* Contents, sizes and hashes *)

Data == 1..MaxData

Raw(d) == [kind |-> "raw", data |-> d]
EmptyContent == Raw(0)

\* st_size / os.path.getsize: raw data d is 512*d bytes long, a stream is a
\* header and the deflated payload.
SizeOf(content) ==
    CASE content.kind = "raw" -> 512 * content.data
      [] content.kind = "gzip" -> 18 + 128 * content.data
      [] content.kind = "zlib" -> 6 + 128 * content.data

NoHash == <<>>
\* hashlib.sha256 over the whole file, 4096 bytes at a time: collision-free
calculate_file_hash(content) == <<content>>

\* gzip.open(output, 'wb').writelines(f_in) / zlib.compress(data)
Encode(method, content) == [kind |-> method, data |-> content.data]

\* gzip.open(...).read() / zlib.decompress: a stream of the other codec, or
\* bytes that are no stream at all, raise.
CanDecode(method, content) == content.kind = method
Decode(method, content) == Raw(content.data)

NoFiles == [p \in {} |-> 0]

File(content, t) == [content |-> content, atime |-> t, mtime |-> t]

\* A compressed artifact.  No operation reads the timestamps of an artifact
\* (the scanner rejects it by its extension before it scores anything), so
\* they are not followed: every artifact carries the same ones.
Artifact(content) == File(content, 0)

Put(f, path, file) == [q \in DOMAIN f \cup {path} |-> IF q = path THEN file ELSE f[q]]
Remove(f, path) == [q \in DOMAIN f \ {path} |-> f[q]]

---------------------------------------------------------------------------
(* CompressedMarker: the metadata ledger (compressed_marker.py)            *)
(* The operations work on a world w = [fs, doc, files] and return the new  *)
(* world with what the call returned.                                      *)

World == [fs |-> fs, doc |-> metadata_doc, files |-> compressed_files]

\* _create_empty_metadata: open(metadata_path, 'w'), an empty document
create_empty_metadata(w) == [w EXCEPT !.doc = "valid", !.files = NoFiles]

\* _load_metadata: an absent or unparsable document is replaced by an empty
\* one, which is then loaded
load_metadata_as_found(w) == w
load_metadata(w) == IF w.doc = "valid" THEN w ELSE create_empty_metadata(w)

\* _save_metadata: the whole document is rewritten
save_metadata(w, files) == [w EXCEPT !.doc = "valid", !.files = files]

\* _save_metadata raising.  fault "save_fails": open(metadata_path, 'w')
\* raises and the document is as it was; "write_fails": the document has been
\* truncated by open when json.dump or the close raises (the disk is full),
\* what is left of it does not parse.
SaveFaults == {"save_fails", "write_fails"}
failed_save(w, fault) ==
    IF fault = "write_fails" THEN [w EXCEPT !.doc = "unparsable", !.files = NoFiles]
    ELSE w

\* metadata["compressed_files"][original_path] = file_metadata
store_entry_under_compressed_path(files, original_path, file_metadata) ==
    Put(files, file_metadata.compressed_path, file_metadata)
store_entry(files, original_path, file_metadata) ==
    Put(files, original_path, file_metadata)

\* del metadata["compressed_files"][original_path]
delete_entry(files, original_path) == Remove(files, original_path)

\* mark_as_compressed.  fault: one of SaveFaults is _save_metadata raising,
\* "hash_fails" is the original being unreadable when it is hashed.
mark_as_compressed(w, original_path, compressed_path, original_size, compressed_size, method, fault) ==
    LET m == load_metadata(w)
        original_hash ==
            IF original_path \in DOMAIN m.fs /\ fault # "hash_fails"
            THEN calculate_file_hash(m.fs[original_path].content)
            ELSE NoHash
        file_metadata ==
            [original_path |-> original_path,
             compressed_path |-> compressed_path,
             original_size |-> original_size,
             compressed_size |-> compressed_size,
             compression_method |-> method,
             original_hash |-> original_hash,
             file_type |-> splitext(original_path)]
    IN  IF fault \in SaveFaults
        THEN [w |-> failed_save(m, fault), ret |-> FALSE]
        ELSE [w |-> save_metadata(m, store_entry(m.files, original_path, file_metadata)),
              ret |-> TRUE]

\* is_compressed
is_compressed_never(w, file_path) == [w |-> load_metadata(w), ret |-> FALSE]
is_compressed(w, file_path) ==
    LET m == load_metadata(w)
    IN  [w |-> m, ret |-> file_path \in DOMAIN m.files]

\* get_compressed_file_info: the entry, or None
None == [none |-> TRUE]
get_compressed_file_info(w, original_path) ==
    LET m == load_metadata(w)
    IN  [w |-> m,
         ret |-> IF original_path \in DOMAIN m.files
                 THEN m.files[original_path] ELSE None]

\* unmark_compressed.  fault: one of SaveFaults is _save_metadata raising
unmark_compressed(w, original_path, fault) ==
    LET m == load_metadata(w)
    IN  IF original_path \in DOMAIN m.files
        THEN IF fault \in SaveFaults
             THEN [w |-> failed_save(m, fault), ret |-> FALSE]
             ELSE [w |-> save_metadata(m, delete_entry(m.files, original_path)),
                   ret |-> TRUE]
        ELSE [w |-> m, ret |-> FALSE]

---------------------------------------------------------------------------
(* SmartCompressFS: compression of one file (smartcompress.py)             *)

Fraction(n, d) == [num |-> n, den |-> d]

\* TanishaModule._analyze_file: os.stat of the file
analyze_file(f, file_path) ==
    [path |-> file_path,
     size |-> SizeOf(f[file_path].content),
     last_access_time |-> f[file_path].atime,
     last_modified_time |-> f[file_path].mtime,
     file_type |-> splitext(file_path),
     priority_score |-> Fraction(0, 1)]

\* f"{original_path}.{method}", then f"{original_path}.{method}.{counter}"
artifact_name(original_path, method, counter) ==
    IF counter = 0 THEN Append(original_path, method)
    ELSE original_path \o <<method, CounterStr[counter]>>

\* while os.path.exists(compressed_path): the first name that is free
RECURSIVE free_name(_, _, _, _)
free_name(f, original_path, method, counter) ==
    IF artifact_name(original_path, method, counter) \notin DOMAIN f
    THEN artifact_name(original_path, method, counter)
    ELSE free_name(f, original_path, method, counter + 1)

\* the model follows the loop up to the suffix MaxCounter
NameWithinBound(f, original_path, method) ==
    \E k \in 0..MaxCounter : artifact_name(original_path, method, k) \notin DOMAIN f

\* _compress_gzip, _compress_zlib: the stream of the input is written to
\* output_path.  fault "compress_fails": the input cannot be opened;
\* "output_fails": the output has been created when a write to it raises, and
\* what is left at output_path is no stream.
StepFaults == {"compress_fails", "output_fails"}
compress_stream_consumes_input(f, method, input_path, output_path, t, fault) ==
    IF fault \in StepFaults
    THEN [fs |-> Remove(f, input_path), ret |-> FALSE]
    ELSE [fs |-> Put(f, output_path, Artifact(Encode(method, f[input_path].content))),
          ret |-> TRUE]
compress_stream(f, method, input_path, output_path, t, fault) ==
    IF fault = "compress_fails"
    THEN [fs |-> f, ret |-> FALSE]
    ELSE IF fault = "output_fails"
    THEN [fs |-> Put(f, output_path, Artifact(EmptyContent)), ret |-> FALSE]
    ELSE [fs |-> Put(f, output_path, Artifact(Encode(method, f[input_path].content))),
          ret |-> TRUE]

\* os.remove(original_path) inside try/except: fault "remove_fails" is logged
remove_original_whatever(f, original_path, fault) == Remove(f, original_path)
remove_original(f, original_path, fault) ==
    IF fault = "remove_fails" THEN f ELSE Remove(f, original_path)

\* compress_file
compress_file_falling_back(w, file_info, method, t, fault) ==
    LET original_path == file_info.path
        compressed_path == free_name(w.fs, original_path, method, 0)
    IN  IF original_path \notin DOMAIN w.fs
        THEN [w |-> w, ret |-> FALSE]
        ELSE LET c == compress_stream(w.fs,
                          IF method \in Methods THEN method ELSE "gzip",
                          original_path, compressed_path, t, fault)
             IN  IF ~c.ret
                 THEN [w |-> [w EXCEPT !.fs = c.fs], ret |-> FALSE]
                 ELSE LET compressed_size == SizeOf(c.fs[compressed_path].content)
                          m == mark_as_compressed([w EXCEPT !.fs = c.fs],
                                   original_path, compressed_path, file_info.size,
                                   compressed_size, method, fault)
                      IN  [w |-> [m.w EXCEPT
                                    !.fs = remove_original(m.w.fs, original_path, fault)],
                           ret |-> TRUE]
compress_file(w, file_info, method, t, fault) ==
    LET original_path == file_info.path
        compressed_path == free_name(w.fs, original_path, method, 0)
    IN  IF original_path \notin DOMAIN w.fs
        THEN [w |-> w, ret |-> FALSE]
        ELSE IF method \notin Methods
        THEN [w |-> w, ret |-> FALSE]
        ELSE LET c == compress_stream(w.fs, method, original_path,
                                      compressed_path, t, fault)
             IN  IF ~c.ret
                 THEN [w |-> [w EXCEPT !.fs = c.fs], ret |-> FALSE]
                 ELSE LET compressed_size == SizeOf(c.fs[compressed_path].content)
                          m == mark_as_compressed([w EXCEPT !.fs = c.fs],
                                   original_path, compressed_path, file_info.size,
                                   compressed_size, method, fault)
                      IN  [w |-> [m.w EXCEPT
                                    !.fs = remove_original(m.w.fs, original_path, fault)],
                           ret |-> TRUE]

---------------------------------------------------------------------------
(* DecompressionManager (decompression.py)                                 *)

NoBackup == <<>>

\* f"{original_path}.backup_{int(time.time())}"
backup_name(original_path, t) == Append(original_path, BackupStr[t + 1])

\* shutil.copy2(original_path, backup_path): content and timestamps
create_backup(f, original_path, backup_path) ==
    Put(f, backup_path, f[original_path])

\* if backup_path and os.path.exists(backup_path):
\*     shutil.move(backup_path, original_path)
restore_backup_skipped(f, backup_path, original_path) == f
restore_backup(f, backup_path, original_path) ==
    IF backup_path # NoBackup /\ backup_path \in DOMAIN f
    THEN Remove(Put(f, original_path, f[backup_path]), backup_path)
    ELSE f

\* _decompress_gzip: open(output_path, 'wb') truncates the output before the
\* first read of the stream raises
decompress_gzip(f, compressed_path, output_path, t) ==
    IF CanDecode("gzip", f[compressed_path].content)
    THEN [fs |-> Put(f, output_path, File(Decode("gzip", f[compressed_path].content), t)),
          ret |-> TRUE]
    ELSE [fs |-> Put(f, output_path, File(EmptyContent, t)), ret |-> FALSE]

\* _decompress_zlib: zlib.decompress raises before the output is opened
decompress_zlib(f, compressed_path, output_path, t) ==
    IF CanDecode("zlib", f[compressed_path].content)
    THEN [fs |-> Put(f, output_path, File(Decode("zlib", f[compressed_path].content), t)),
          ret |-> TRUE]
    ELSE [fs |-> f, ret |-> FALSE]

\* self.decompression_methods[compression_method](compressed_path, original_path)
decompress_stream(f, method, compressed_path, output_path, t) ==
    IF method = "gzip" THEN decompress_gzip(f, compressed_path, output_path, t)
    ELSE decompress_zlib(f, compressed_path, output_path, t)

\* _verify_file_integrity
verify_file_integrity(f, file_path, expected_hash) ==
    file_path \in DOMAIN f /\ calculate_file_hash(f[file_path].content) = expected_hash

\* os.remove(compressed_path) inside try/except: fault "remove_fails" is logged
remove_compressed(f, compressed_path, fault) ==
    IF fault = "remove_fails" THEN f ELSE Remove(f, compressed_path)

\* if not os.path.exists(compressed_path): the error is logged, nothing else
compressed_file_not_found_unmarks(w, original_path) ==
    save_metadata(w, delete_entry(w.files, original_path))
compressed_file_not_found(w, original_path) == w

\* os.remove(backup_path) raising (the backup is held open by another
\* process, or its removal is denied): the exception is caught by the except
\* branch of decompress_file, which returns False
BackupFaults == {"backup_fails"}

\* self.decompression_methods: the methods decompress_file has a function for
decompression_methods == Methods

\* decompress_file; why is the error it logs
decompress_file(w, original_path, verify_integrity, t, fault) ==
    LET g == get_compressed_file_info(w, original_path)
        file_info == g.ret
    IN  IF file_info = None
        THEN [w |-> g.w, ret |-> FALSE, why |-> "File not found in compression metadata"]
        ELSE
        LET compressed_path == file_info.compressed_path
            method == file_info.compression_method
            original_hash == file_info.original_hash
        IN  IF compressed_path \notin DOMAIN g.w.fs
            THEN [w |-> compressed_file_not_found(g.w, original_path),
                  ret |-> FALSE, why |-> "Compressed file not found"]
            ELSE IF method \notin decompression_methods
            THEN [w |-> g.w, ret |-> FALSE, why |-> "Unsupported compression method"]
            ELSE
            LET backup_path == IF original_path \in DOMAIN g.w.fs
                               THEN backup_name(original_path, t) ELSE NoBackup
                f1 == IF original_path \in DOMAIN g.w.fs
                      THEN create_backup(g.w.fs, original_path, backup_path)
                      ELSE g.w.fs
                d == decompress_stream(f1, method, compressed_path, original_path, t)
            IN  IF ~d.ret
                THEN [w |-> [g.w EXCEPT !.fs = restore_backup(d.fs, backup_path, original_path)],
                      ret |-> FALSE, why |-> "decompression failed"]
                ELSE IF verify_integrity /\ original_hash # NoHash
                        /\ ~verify_file_integrity(d.fs, original_path, original_hash)
                THEN [w |-> [g.w EXCEPT !.fs = restore_backup(d.fs, backup_path, original_path)],
                      ret |-> FALSE, why |-> "File integrity verification failed"]
                ELSE
                LET f2 == remove_compressed(d.fs, compressed_path, fault)
                    u == unmark_compressed([g.w EXCEPT !.fs = f2], original_path, fault)
                    f3 == IF backup_path # NoBackup /\ backup_path \in DOMAIN u.w.fs
                          THEN Remove(u.w.fs, backup_path) ELSE u.w.fs
                IN  IF fault \in BackupFaults /\ backup_path # NoBackup
                       /\ backup_path \in DOMAIN u.w.fs
                    THEN [w |-> u.w, ret |-> FALSE, why |-> "exception"]
                    ELSE [w |-> [u.w EXCEPT !.fs = f3], ret |-> TRUE, why |-> ""]

---------------------------------------------------------------------------
(* TanishaModule: the priority scanner (tanisha_module.py)                 *)

supported_extensions == {"txt", "log", "json", "csv", "xml", "yaml", "yml"}
ignored_extensions ==
    {"zip", "gz", "bz2", "xz", "7z", "rar", "tar", "pdf", "jpg", "jpeg", "png",
     "gif", "bmp", "tiff", "mp3", "mp4", "avi", "mkv", "mov", "wmv", "exe",
     "dll", "so", "dylib", "bin"}
min_file_size == 1024
max_days_for_priority == 30
default_min_priority == Fraction(3, 10)

\* _is_compressible: the ledger is consulted only by a file that passed the
\* extension and size tests
is_compressible_any_type(w, file_info) ==
    IF file_info.file_type \in ignored_extensions THEN [w |-> w, ret |-> FALSE]
    ELSE IF file_info.size < min_file_size THEN [w |-> w, ret |-> FALSE]
    ELSE LET c == is_compressed(w, file_info.path)
         IN  IF c.ret THEN [w |-> c.w, ret |-> FALSE]
             ELSE [w |-> c.w, ret |-> file_info.path \in DOMAIN c.w.fs]
is_compressible(w, file_info) ==
    IF file_info.file_type \notin supported_extensions THEN [w |-> w, ret |-> FALSE]
    ELSE IF file_info.file_type \in ignored_extensions THEN [w |-> w, ret |-> FALSE]
    ELSE IF file_info.size < min_file_size THEN [w |-> w, ret |-> FALSE]
    ELSE LET c == is_compressed(w, file_info.path)
         IN  IF c.ret THEN [w |-> c.w, ret |-> FALSE]
             ELSE [w |-> c.w, ret |-> file_info.path \in DOMAIN c.w.fs]

\* scan_directory: order is the sequence of files os.walk yields
RECURSIVE scan_directory(_, _)
scan_directory(w, order) ==
    IF order = <<>> THEN [w |-> w, ret |-> <<>>]
    ELSE LET c == is_compressible(w, analyze_file(w.fs, Head(order)))
             rest == scan_directory(c.w, Tail(order))
         IN  [w |-> rest.w,
              ret |-> IF c.ret THEN <<analyze_file(w.fs, Head(order))>> \o rest.ret
                      ELSE rest.ret]

Min(a, b) == IF a < b THEN a ELSE b

RECURSIVE max_size(_)
max_size(files) ==
    IF files = <<>> THEN 0
    ELSE LET m == max_size(Tail(files))
         IN  IF Head(files).size > m THEN Head(files).size ELSE m

\* (access_score * 0.7) + (size_score * 0.3) as an exact fraction, with
\* access_score = min(days_since_access / 30, 1.0) and
\* size_score = size / max_size if max_size > 0 else 0
priority_score(file_info, biggest, t) ==
    LET days_since_access == (t - file_info.last_access_time) * DaysPerTick
        a == Min(days_since_access, max_days_for_priority)
    IN  IF biggest > 0
        THEN Fraction(7 * a * biggest + 3 * max_days_for_priority * file_info.size,
                      10 * max_days_for_priority * biggest)
        ELSE Fraction(7 * a, 10 * max_days_for_priority)

\* calculate_priority_scores
calculate_priority_scores(files, t) ==
    [i \in 1..Len(files) |->
        [files[i] EXCEPT !.priority_score = priority_score(files[i], max_size(files), t)]]

\* x >= y and x > y on fractions with positive denominators (the scores of
\* one batch share their denominator)
AtLeast(x, y) ==
    IF x.den = y.den THEN x.num >= y.num ELSE x.num * y.den >= y.num * x.den
Above(x, y) ==
    IF x.den = y.den THEN x.num > y.num ELSE x.num * y.den > y.num * x.den

\* list.sort(key=priority_score, reverse=True): stable, so a file goes after
\* the files already placed whose score is at least its own
RECURSIVE insert_by_priority(_, _)
insert_by_priority(sorted, file_info) ==
    IF sorted = <<>> THEN <<file_info>>
    ELSE IF AtLeast(Head(sorted).priority_score, file_info.priority_score)
    THEN <<Head(sorted)>> \o insert_by_priority(Tail(sorted), file_info)
    ELSE <<file_info>> \o sorted

sort_in_scan_order(files, sorted) == sorted \o files

RECURSIVE sort_by_priority(_, _)
sort_by_priority(files, sorted) ==
    IF files = <<>> THEN sorted
    ELSE sort_by_priority(Tail(files), insert_by_priority(sorted, Head(files)))

\* [f for f in files_with_scores if f.priority_score >= min_priority]
high_priority(files, min_priority) ==
    SelectSeq(files, LAMBDA f : AtLeast(f.priority_score, min_priority))

\* if max_files: high_priority_files[:max_files]
limit(files, max_files) ==
    IF max_files # 0 THEN SubSeq(files, 1, Min(max_files, Len(files))) ELSE files

\* get_priority_files
get_priority_files(w, order, max_files, min_priority, t) ==
    LET s == scan_directory(w, order)
    IN  IF s.ret = <<>> THEN s
        ELSE [w |-> s.w,
              ret |-> limit(sort_by_priority(
                                high_priority(calculate_priority_scores(s.ret, t),
                                              min_priority), <<>>),
                            max_files)]

---------------------------------------------------------------------------
(* SmartCompressFS: batches and the disk threshold (smartcompress.py)      *)

max_files_per_batch == 50
default_disk_threshold == 90

CompressFaults == {"none", "hash_fails", "remove_fails"} \cup StepFaults \cup SaveFaults
DecompressFaults == {"none", "remove_fails"}

\* for file_info in priority_files: the files are compressed one after
\* another; attempts lists the calls made and what each returned.
\* compress_tally is the body of the loop after compress_file returned c,
\* r being the tally of the files that follow
RECURSIVE compress_each(_, _, _, _, _)
compress_tally(c, r, file_info) ==
    [w |-> r.w,
     successful |-> r.successful + (IF c.ret THEN 1 ELSE 0),
     failed |-> r.failed + (IF c.ret THEN 0 ELSE 1),
     tenths |-> r.tenths + (IF c.ret THEN 3 * file_info.size ELSE 0),
     attempts |-> <<[path |-> file_info.path, ret |-> c.ret]>> \o r.attempts]
compress_rest_until_failure(c, files, method, t, faults) ==
    compress_tally(c, compress_each(c.w, IF c.ret THEN Tail(files) ELSE <<>>,
                                    method, t, faults),
                   Head(files))
compress_each_until_failure(w, files, method, t, faults) ==
    IF files = <<>> THEN [w |-> w, successful |-> 0, failed |-> 0, tenths |-> 0,
                          attempts |-> <<>>]
    ELSE compress_rest_until_failure(
             compress_file(w, Head(files), method, t, faults[Head(files).path]),
             files, method, t, faults)
compress_rest(c, files, method, t, faults) ==
    compress_tally(c, compress_each(c.w, Tail(files), method, t, faults), Head(files))
compress_each(w, files, method, t, faults) ==
    IF files = <<>> THEN [w |-> w, successful |-> 0, failed |-> 0, tenths |-> 0,
                          attempts |-> <<>>]
    ELSE compress_rest(
             compress_file(w, Head(files), method, t, faults[Head(files).path]),
             files, method, t, faults)

\* the results of compress_files: p is what get_priority_files returned and r
\* the tally of the loop; selected lists the files the loop was given
compress_report(p, r) ==
    [w |-> r.w,
     ret |-> [total_files |-> Len(p.ret), successful |-> r.successful,
              failed |-> r.failed, space_saved |-> Fraction(r.tenths, 10)],
     selected |-> [i \in 1..Len(p.ret) |-> p.ret[i].path],
     attempts |-> r.attempts]
compress_selected(p, method, t, faults) ==
    compress_report(p, compress_each(p.w, p.ret, method, t, faults))

\* compress_files; max_files 0 stands for None as well (max_files or 50)
compress_files(w, order, max_files, method, t, faults) ==
    compress_selected(get_priority_files(w, order,
                          IF max_files # 0 THEN max_files ELSE max_files_per_batch,
                          default_min_priority, t),
                      method, t, faults)

\* get_all_compressed_files: list(metadata["compressed_files"].values()),
\* order being the order of the keys in the document
get_all_compressed_files(w, order) ==
    LET m == load_metadata(w)
    IN  [w |-> m, ret |-> [i \in 1..Len(order) |-> m.files[order[i]]]]

\* for file_info in compressed_files: the entries are decompressed one after
\* another; attempts lists the calls made and what each returned.
\* decompress_tally is the body of the loop after decompress_file returned d
RECURSIVE decompress_each(_, _, _, _, _)
decompress_tally(d, r, original_path) ==
    [w |-> r.w,
     successful |-> r.successful + (IF d.ret THEN 1 ELSE 0),
     failed |-> r.failed + (IF d.ret THEN 0 ELSE 1),
     attempts |-> <<[path |-> original_path, ret |-> d.ret]>> \o r.attempts]
decompress_rest(d, entries, verify_integrity, t, faults) ==
    decompress_tally(d, decompress_each(d.w, Tail(entries), verify_integrity, t, faults),
                     Head(entries).original_path)
decompress_each(w, entries, verify_integrity, t, faults) ==
    IF entries = <<>> THEN [w |-> w, successful |-> 0, failed |-> 0, attempts |-> <<>>]
    ELSE decompress_rest(
             decompress_file(w, Head(entries).original_path, verify_integrity, t,
                             faults[Head(entries).original_path]),
             entries, verify_integrity, t, faults)

\* the pair (successful_count, failed_count) of decompress_all: g is what
\* get_all_compressed_files returned and r the tally of the loop
decompress_report(g, r) ==
    [w |-> r.w, ret |-> <<r.successful, r.failed>>,
     listed |-> [i \in 1..Len(g.ret) |-> g.ret[i].original_path],
     attempts |-> r.attempts]
decompress_listed(g, verify_integrity, t, faults) ==
    decompress_report(g, decompress_each(g.w, g.ret, verify_integrity, t, faults))

\* decompress_all
decompress_all(w, order, verify_integrity, t, faults) ==
    decompress_listed(get_all_compressed_files(w, order), verify_integrity, t, faults)

\* get_disk_usage: {} when psutil raises or the division by total does
NoDiskInfo == [empty |-> TRUE]
get_disk_usage(d) ==
    IF d.error \/ d.total = 0 THEN NoDiskInfo
    ELSE [total_bytes |-> d.total, used_bytes |-> d.used,
          free_bytes |-> d.total - d.used,
          used_percent |-> Fraction(d.used * 100, d.total)]

\* should_trigger_compression
should_trigger_compression_above(d, threshold) ==
    get_disk_usage(d) # NoDiskInfo
    /\ Above(get_disk_usage(d).used_percent, Fraction(threshold, 1))
should_trigger_compression(d, threshold) ==
    LET disk_info == get_disk_usage(d)
    IN  IF disk_info = NoDiskInfo THEN FALSE
        ELSE AtLeast(disk_info.used_percent, Fraction(threshold, 1))

---------------------------------------------------------------------------
(* CompressedMarker.get_compression_stats                                  *)

RECURSIVE sum_of(_, _, _)
sum_of(files, keys, field) ==
    IF keys = {} THEN 0
    ELSE LET k == CHOOSE x \in keys : TRUE
         IN  files[k][field] + sum_of(files, keys \ {k}, field)

ZeroDivisionError == [raised |-> "ZeroDivisionError"]
Divide(n, d) == IF d = 0 THEN ZeroDivisionError ELSE Fraction(n, d)

\* (space_saved / total_original * 100) if total_original > 0 else 0
average_ratio_unguarded(space_saved, total_original) ==
    Divide(space_saved * 100, total_original)
average_ratio(space_saved, total_original) ==
    IF total_original > 0 THEN Divide(space_saved * 100, total_original)
    ELSE Fraction(0, 1)

\* get_compression_stats: {} when anything raises
NoStats == [empty |-> TRUE]
get_compression_stats(w) ==
    LET m == load_metadata(w)
        total_original == sum_of(m.files, DOMAIN m.files, "original_size")
        total_compressed == sum_of(m.files, DOMAIN m.files, "compressed_size")
        space_saved == total_original - total_compressed
        avg_ratio == average_ratio(space_saved, total_original)
    IN  [w |-> m,
         ret |-> IF m.files = NoFiles
                 THEN [total_files |-> 0, total_original_size |-> 0,
                       total_compressed_size |-> 0, total_space_saved |-> 0,
                       average_compression_ratio |-> Fraction(0, 1)]
                 ELSE IF avg_ratio = ZeroDivisionError THEN NoStats
                 ELSE [total_files |-> Cardinality(DOMAIN m.files),
                       total_original_size |-> total_original,
                       total_compressed_size |-> total_compressed,
                       total_space_saved |-> space_saved,
                       average_compression_ratio |-> avg_ratio]]

\* cleanup_invalid_entries: the entries whose artifact does not exist are
\* deleted, the document is written if there was one, and their number is
\* returned; 0 when _save_metadata raises
cleanup_invalid_entries(w, fault) ==
    LET m == load_metadata(w)
        invalid == {original_path \in DOMAIN m.files :
                       m.files[original_path].compressed_path \notin DOMAIN m.fs}
        cleaned_count == Cardinality(invalid)
        kept == [original_path \in DOMAIN m.files \ invalid |-> m.files[original_path]]
    IN  IF cleaned_count > 0
        THEN IF fault \in SaveFaults
             THEN [w |-> failed_save(m, fault), ret |-> 0]
             ELSE [w |-> save_metadata(m, kept), ret |-> cleaned_count]
        ELSE [w |-> m, ret |-> 0]

---------------------------------------------------------------------------
(* The state machine                                                       *)

Disk(total, used, error) == [total |-> total, used |-> used, error |-> error]

\* the contexts that call into the engine: the caller of the public
\* operations, and the monitor's cycle
Contexts == {"foreground", "monitor"}
NoCall == [pc |-> "idle"]
NoThread == 0

\* SmartCompressFS.__init__: no monitor; and no call in progress
NothingRunning ==
    /\ monitoring = FALSE
    /\ monitor_thread = NoThread
    /\ threads = <<>>
    /\ calls = [c \in Contexts |-> NoCall]

Init ==
    /\ fs = NoFiles
    /\ metadata_doc = "valid"
    /\ compressed_files = NoFiles
    /\ now = 0
    /\ compression_method \in ConfigurableMethods
    /\ disk = Disk(MaxTotal, 0, FALSE)
    /\ disk_threshold = default_disk_threshold
    /\ NothingRunning
    /\ last = [op |-> "init"]

Env == [op |-> "env"]

\* the world w becomes the state
Becomes(w) ==
    /\ fs' = w.fs
    /\ metadata_doc' = w.doc
    /\ compressed_files' = w.files

IsArtifact(path) == Len(path) >= 3 /\ path[3] \in Methods

\* the sequences in which os.walk can yield the files: the files of other
\* extensions than the originals' are never eligible, they come last
RECURSIVE SetToSeq(_)
SetToSeq(S) ==
    IF S = {} THEN <<>>
    ELSE LET x == CHOOSE y \in S : TRUE IN <<x>> \o SetToSeq(S \ {x})

Permutations_of(S) ==
    {s \in [1..Cardinality(S) -> S] : \A i, j \in DOMAIN s : i # j => s[i] # s[j]}

WalkOrders(f) ==
    {s \o SetToSeq(DOMAIN f \ Originals) : s \in Permutations_of(DOMAIN f \cap Originals)}

(* the environment *)

\* a user stores a file of raw data d at an original path
EnvCreateFile(path, d) ==
    /\ path \notin DOMAIN fs
    /\ fs' = Put(fs, path, File(Raw(d), now))
    /\ last' = Env
    /\ UNCHANGED <<metadata_doc, compressed_files, now, compression_method,
                   disk, disk_threshold, monitoring, monitor_thread,
                   threads, calls>>

\* time passes
Tick ==
    /\ now < MaxNow
    /\ now' = now + 1
    /\ last' = Env
    /\ UNCHANGED <<fs, metadata_doc, compressed_files, compression_method,
                   disk, disk_threshold, monitoring, monitor_thread,
                   threads, calls>>

\* the artifact of a ledger entry is overwritten: by the stream of other
\* data, or by bytes that are no stream
EnvReplaceArtifact(path, content) ==
    /\ path \in DOMAIN fs
    /\ \E k \in DOMAIN compressed_files : compressed_files[k].compressed_path = path
    /\ fs[path].content.kind \in Methods
    /\ content # fs[path].content
    /\ content.kind \in {fs[path].content.kind, "raw"}
    /\ fs' = Put(fs, path, Artifact(content))
    /\ last' = Env
    /\ UNCHANGED <<metadata_doc, compressed_files, now, compression_method,
                   disk, disk_threshold, monitoring, monitor_thread,
                   threads, calls>>

\* the ledger document is deleted or damaged
EnvDamageLedger(state) ==
    /\ metadata_doc = "valid"
    /\ metadata_doc' = state
    /\ compressed_files' = NoFiles
    /\ last' = Env
    /\ UNCHANGED <<fs, now, compression_method, disk, disk_threshold, monitoring, monitor_thread,
                   threads, calls>>

(* the calls *)

\* compress_file on the FileInfo of an existing file
CompressFile(path, fault) ==
    /\ path \in DOMAIN fs
    /\ NameWithinBound(fs, path, compression_method)
    /\ LET r == compress_file(World, analyze_file(fs, path), compression_method,
                              now, fault)
       IN  /\ Becomes(r.w)
           /\ last' = [op |-> "compress_file", path |-> path, ret |-> r.ret,
                       before |-> fs[path], fault |-> fault]
    /\ UNCHANGED <<now, compression_method, disk, disk_threshold, monitoring, monitor_thread,
                   threads, calls>>

CompressFiles(order, max_files, faults) ==
    /\ \A path \in Originals : NameWithinBound(fs, path, compression_method)
    /\ LET r == compress_files(World, order, max_files, compression_method, now, faults)
       IN  /\ Becomes(r.w)
           /\ last' = [op |-> "compress_files", ret |-> r.ret,
                       selected |-> r.selected, attempts |-> r.attempts]
    /\ UNCHANGED <<now, compression_method, disk, disk_threshold, monitoring, monitor_thread,
                   threads, calls>>

DecompressAll(order, verify_integrity, faults) ==
    /\ LET r == decompress_all(World, order, verify_integrity, now, faults)
       IN  /\ Becomes(r.w)
           /\ last' = [op |-> "decompress_all", ret |-> r.ret,
                       listed |-> r.listed, attempts |-> r.attempts]
    /\ UNCHANGED <<now, compression_method, disk, disk_threshold, monitoring,
                   monitor_thread, threads, calls>>

DecompressFile(path, verify_integrity, fault) ==
    /\ LET r == decompress_file(World, path, verify_integrity, now, fault)
       IN  /\ Becomes(r.w)
           /\ last' = [op |-> "decompress_file", path |-> path,
                       verify_integrity |-> verify_integrity, ret |-> r.ret,
                       why |-> r.why]
    /\ UNCHANGED <<now, compression_method, disk, disk_threshold, monitoring, monitor_thread,
                   threads, calls>>

UnmarkCompressed(path, fault) ==
    /\ LET r == unmark_compressed(World, path, fault)
       IN  /\ Becomes(r.w)
           /\ last' = [op |-> "unmark_compressed", path |-> path, ret |-> r.ret]
    /\ UNCHANGED <<now, compression_method, disk, disk_threshold, monitoring, monitor_thread,
                   threads, calls>>

IsCompressed(path) ==
    /\ LET r == is_compressed(World, path)
       IN  /\ Becomes(r.w)
           /\ last' = [op |-> "is_compressed", path |-> path, ret |-> r.ret]
    /\ UNCHANGED <<now, compression_method, disk, disk_threshold, monitoring, monitor_thread,
                   threads, calls>>

Scored(files) == [i \in 1..Len(files) |->
                    [path |-> files[i].path, priority_score |-> files[i].priority_score]]

ScanDirectory(order) ==
    /\ LET r == scan_directory(World, order)
       IN  /\ Becomes(r.w)
           /\ last' = [op |-> "scan_directory", ret |-> Scored(r.ret)]
    /\ UNCHANGED <<now, compression_method, disk, disk_threshold, monitoring, monitor_thread,
                   threads, calls>>

GetPriorityFiles(order, max_files) ==
    /\ LET r == get_priority_files(World, order, max_files, default_min_priority, now)
       IN  /\ Becomes(r.w)
           /\ last' = [op |-> "get_priority_files", max_files |-> max_files,
                       ret |-> Scored(r.ret)]
    /\ UNCHANGED <<now, compression_method, disk, disk_threshold, monitoring, monitor_thread,
                   threads, calls>>

\* the life of one file: every call, fault and interference that can meet it
Tracked == {report_txt}

Next ==
    \/ \E path \in Tracked, d \in Data : EnvCreateFile(path, d)
    \/ Tick
    \/ \E path \in DOMAIN fs, content \in {EmptyContent} \cup
                   {[kind |-> kind, data |-> d] : kind \in Methods, d \in Data} :
          EnvReplaceArtifact(path, content)
    \/ \E state \in {"absent", "unparsable"} : EnvDamageLedger(state)
    \/ \E path \in Tracked, fault \in CompressFaults : CompressFile(path, fault)
    \/ \E path \in Tracked, verify_integrity \in BOOLEAN, fault \in DecompressFaults :
          DecompressFile(path, verify_integrity, fault)
    \/ \E path \in Tracked : UnmarkCompressed(path, "none")

Spec == Init /\ [][Next]_vars

\* a ledger entry as compress_file records it for a file of raw data d
EntryFor(path, d, hashed) ==
    [original_path |-> path,
     compressed_path |-> artifact_name(path, "gzip", 0),
     original_size |-> SizeOf(Raw(d)),
     compressed_size |-> SizeOf(Encode("gzip", Raw(d))),
     compression_method |-> "gzip",
     original_hash |-> IF hashed THEN calculate_file_hash(Raw(d)) ELSE NoHash,
     file_type |-> splitext(path)]

\* the artifact of the entry EntryFor(path, d, TRUE)
ArtifactFor(path, d) == Artifact(Encode("gzip", Raw(d)))

---------------------------------------------------------------------------
(* Batches: compress_files over a directory of originals and              *)
(* decompress_all over the ledger, each file of the batch meeting a fault  *)
(* of its own                                                              *)

\* what is in the directory and in the ledger for one original path: nothing,
\* a file, or an entry with its artifact, the artifact being a stream or not
FileStates ==
    {[entry |-> FALSE, file |-> FALSE, data |-> 0, sound |-> TRUE]}
    \cup {[entry |-> FALSE, file |-> TRUE, data |-> d, sound |-> TRUE] : d \in Data}
    \cup {[entry |-> TRUE, file |-> FALSE, data |-> 2, sound |-> sound] : sound \in BOOLEAN}

BatchDirectory(state) ==
    [p \in {q \in Originals : state[q].file}
           \cup {artifact_name(q, "gzip", 0) : q \in {x \in Originals : state[x].entry}} |->
        IF p \in Originals THEN File(Raw(state[p].data), 0)
        ELSE IF state[SubSeq(p, 1, 2)].sound THEN ArtifactFor(p, 2)
        ELSE Artifact(EmptyContent)]

BatchLedger(state) ==
    [p \in {q \in Originals : state[q].entry} |-> EntryFor(p, 2, TRUE)]

InitBatch ==
    /\ \E state \in [Originals -> FileStates] :
          /\ fs = BatchDirectory(state)
          /\ compressed_files = BatchLedger(state)
    /\ metadata_doc = "valid"
    /\ now \in {0, MaxNow}
    /\ compression_method \in ConfigurableMethods
    /\ disk = Disk(MaxTotal, 0, FALSE)
    /\ disk_threshold = default_disk_threshold
    /\ NothingRunning
    /\ last = [op |-> "init"]

\* the faults followed inside a batch: a file of the batch fails in its
\* compression step or not at all (the other faults are followed file by file)
BatchFaults == {"none", "compress_fails"}

NextBatch ==
    \/ \E order \in WalkOrders(fs), max_files \in 0..1,
          faults \in [Originals -> BatchFaults] :
          CompressFiles(order, max_files, faults)
    \/ \E order \in Permutations_of(DOMAIN compressed_files),
          verify_integrity \in BOOLEAN, faults \in [Originals -> DecompressFaults] :
          DecompressAll(order, verify_integrity, faults)

SpecBatch == InitBatch /\ [][NextBatch]_vars

---------------------------------------------------------------------------
(* The scanner on its own: every directory and ledger it can meet          *)

MaxScanData == 3
MaxAge == 2

data_json == <<"data", "json">>
ScanPaths == {report_txt, notes_log, data_json}

Directories ==
    UNION {[S -> {File(Raw(d), t) : d \in 1..MaxScanData, t \in 0..MaxAge}] :
           S \in SUBSET ScanPaths}

Ledgers == UNION {[S -> {EntryFor(path, 2, TRUE) : path \in S}] : S \in SUBSET Originals}

InitScan ==
    /\ fs \in Directories
    /\ metadata_doc \in {"valid", "unparsable"}
    /\ compressed_files \in {l \in Ledgers : \A k \in DOMAIN l : l[k].original_path = k}
    /\ metadata_doc = "unparsable" => compressed_files = NoFiles
    /\ now = MaxAge
    /\ compression_method = "gzip"
    /\ disk = Disk(MaxTotal, 0, FALSE)
    /\ disk_threshold = default_disk_threshold
    /\ NothingRunning
    /\ last = [op |-> "init"]

ScanOrders(f) == Permutations_of(DOMAIN f)

NextScan ==
    \/ \E order \in ScanOrders(fs) : ScanDirectory(order)
    \/ \E order \in ScanOrders(fs), max_files \in {0, 2} :
          GetPriorityFiles(order, max_files)

SpecScan == InitScan /\ [][NextScan]_vars

---------------------------------------------------------------------------
(* The eligibility filter: directories with files of every kind of         *)
(* extension and of both sides of the minimum size, and a file that is     *)
(* gone or replaced between its analysis and its test                      *)

archive_gz == <<"archive", "gz">>
FilterPaths == {report_txt, notes_log, archive_gz, artifact_name(report_txt, "gzip", 0)}

FilterDirectories ==
    UNION {[S -> {File(Raw(d), 0) : d \in Data}] : S \in SUBSET FilterPaths}

InitFilter ==
    /\ fs \in FilterDirectories
    /\ metadata_doc = "valid"
    /\ compressed_files \in {l \in Ledgers : \A k \in DOMAIN l : l[k].original_path = k}
    /\ now = 0
    /\ compression_method = "gzip"
    /\ disk = Disk(MaxTotal, 0, FALSE)
    /\ disk_threshold = default_disk_threshold
    /\ NothingRunning
    /\ last = [op |-> "init"]

\* _is_compressible(file_info), file_info being what _analyze_file found when
\* the file at path had data d: the file may be gone or another by now
IsCompressible(path, d) ==
    /\ LET file_info == analyze_file(Put(fs, path, File(Raw(d), 0)), path)
           r == is_compressible(World, file_info)
       IN  /\ Becomes(r.w)
           /\ last' = [op |-> "_is_compressible", file_info |-> file_info, ret |-> r.ret]
    /\ UNCHANGED <<now, compression_method, disk, disk_threshold, monitoring,
                   monitor_thread, threads, calls>>

NextFilter ==
    \/ \E order \in ScanOrders(fs) : ScanDirectory(order)
    \/ \E path \in FilterPaths, d \in Data : IsCompressible(path, d)

SpecFilter == InitFilter /\ [][NextFilter]_vars

---------------------------------------------------------------------------
(* The disk threshold on its own                                           *)

Thresholds == {0, 50, 90, 100}

InitTrigger ==
    /\ fs = NoFiles
    /\ metadata_doc = "valid"
    /\ compressed_files = NoFiles
    /\ now = 0
    /\ compression_method = "gzip"
    /\ disk \in {Disk(total, used, error) :
                    total \in 0..MaxTotal, used \in 0..MaxTotal, error \in BOOLEAN}
    /\ disk.used <= disk.total
    /\ disk.error => disk.total = 0
    /\ disk_threshold \in Thresholds
    /\ NothingRunning
    /\ last = [op |-> "init"]

ShouldTriggerCompression ==
    /\ last' = [op |-> "should_trigger_compression",
                ret |-> should_trigger_compression(disk, disk_threshold)]
    /\ UNCHANGED <<fs, metadata_doc, compressed_files, now, compression_method,
                   disk, disk_threshold, monitoring, monitor_thread,
                   threads, calls>>

NextTrigger == ShouldTriggerCompression

SpecTrigger == InitTrigger /\ [][NextTrigger]_vars

---------------------------------------------------------------------------
(* The statistics on their own: every ledger mark_as_compressed can build  *)

StatSizes == {0, 1024, 2048}

StatEntry(path, original_size, compressed_size) ==
    [EntryFor(path, 2, TRUE) EXCEPT !.original_size = original_size,
                                    !.compressed_size = compressed_size]

StatLedgers ==
    UNION {[S -> {StatEntry(path, o, c) : path \in S, o \in StatSizes, c \in StatSizes}] :
           S \in SUBSET Originals}

InitStats ==
    /\ fs = NoFiles
    /\ metadata_doc \in {"valid", "absent", "unparsable"}
    /\ compressed_files \in {l \in StatLedgers : \A k \in DOMAIN l : l[k].original_path = k}
    /\ metadata_doc # "valid" => compressed_files = NoFiles
    /\ now = 0
    /\ compression_method = "gzip"
    /\ disk = Disk(MaxTotal, 0, FALSE)
    /\ disk_threshold = default_disk_threshold
    /\ NothingRunning
    /\ last = [op |-> "init"]

GetCompressionStats ==
    /\ LET r == get_compression_stats(World)
       IN  /\ Becomes(r.w)
           /\ last' = [op |-> "get_compression_stats", ret |-> r.ret]
    /\ UNCHANGED <<now, compression_method, disk, disk_threshold, monitoring, monitor_thread,
                   threads, calls>>

NextStats == GetCompressionStats

SpecStats == InitStats /\ [][NextStats]_vars

---------------------------------------------------------------------------
(* The ledger on its own: every operation of CompressedMarker, on every    *)
(* state its document can be found in                                      *)

MarkAsCompressed(original_path, fault) ==
    /\ LET r == mark_as_compressed(World, original_path,
                    artifact_name(original_path, "gzip", 0), SizeOf(Raw(2)),
                    SizeOf(Encode("gzip", Raw(2))), "gzip", fault)
       IN  /\ Becomes(r.w)
           /\ last' = [op |-> "mark_as_compressed", path |-> original_path,
                       ret |-> r.ret, fault |-> fault, found |-> metadata_doc]
    /\ UNCHANGED <<now, compression_method, disk, disk_threshold, monitoring,
                   monitor_thread, threads, calls>>

GetCompressedFileInfo(original_path) ==
    /\ LET r == get_compressed_file_info(World, original_path)
       IN  /\ Becomes(r.w)
           /\ last' = [op |-> "get_compressed_file_info", path |-> original_path,
                       ret |-> r.ret, found |-> metadata_doc]
    /\ UNCHANGED <<now, compression_method, disk, disk_threshold, monitoring,
                   monitor_thread, threads, calls>>

GetAllCompressedFiles(order) ==
    /\ LET r == get_all_compressed_files(World, order)
       IN  /\ Becomes(r.w)
           /\ last' = [op |-> "get_all_compressed_files", ret |-> r.ret,
                       found |-> metadata_doc]
    /\ UNCHANGED <<now, compression_method, disk, disk_threshold, monitoring,
                   monitor_thread, threads, calls>>

CleanupInvalidEntries(fault) ==
    /\ LET r == cleanup_invalid_entries(World, fault)
       IN  /\ Becomes(r.w)
           /\ last' = [op |-> "cleanup_invalid_entries", ret |-> r.ret,
                       fault |-> fault, found |-> metadata_doc]
    /\ UNCHANGED <<now, compression_method, disk, disk_threshold, monitoring,
                   monitor_thread, threads, calls>>

\* the ledgers in which every entry is kept under its original path
RaceLedgers == {l \in Ledgers : \A k \in DOMAIN l : l[k].original_path = k}

\* the originals and the artifacts that are there, each as compress_file
\* leaves it
LedgerPaths == Originals \cup {artifact_name(path, "gzip", 0) : path \in Originals}
LedgerDirectories ==
    {[p \in S |-> IF p \in Originals THEN File(Raw(2), 0) ELSE ArtifactFor(p, 2)] :
     S \in SUBSET LedgerPaths}

InitLedger ==
    /\ fs \in LedgerDirectories
    /\ metadata_doc \in {"valid", "absent", "unparsable"}
    /\ compressed_files \in RaceLedgers
    /\ metadata_doc # "valid" => compressed_files = NoFiles
    /\ now = 0
    /\ compression_method = "gzip"
    /\ disk = Disk(MaxTotal, 0, FALSE)
    /\ disk_threshold = default_disk_threshold
    /\ NothingRunning
    /\ last = [op |-> "init"]

NextLedger ==
    \/ \E path \in Originals, fault \in {"none", "hash_fails"} \cup SaveFaults :
          MarkAsCompressed(path, fault)
    \/ \E path \in Originals : IsCompressed(path)
    \/ \E path \in Originals : GetCompressedFileInfo(path)
    \/ \E order \in Permutations_of(DOMAIN compressed_files) : GetAllCompressedFiles(order)
    \/ \E path \in Originals, fault \in {"none"} \cup SaveFaults :
          UnmarkCompressed(path, fault)
    \/ GetCompressionStats
    \/ \E fault \in {"none"} \cup SaveFaults : CleanupInvalidEntries(fault)
    \/ \E state \in {"absent", "unparsable"} : EnvDamageLedger(state)

SpecLedger == InitLedger /\ [][NextLedger]_vars

---------------------------------------------------------------------------
(* The disk monitor (smartcompress.py): start_monitoring, stop_monitoring  *)
(* and the threads running _monitor_loop                                   *)

MaxThreads == 2

Monitor == [monitoring |-> monitoring, monitor_thread |-> monitor_thread,
            threads |-> threads]

\* threading.Thread(target=self._monitor_loop, daemon=True), before start()
NewThread == [pc |-> "unstarted"]

\* Thread.is_alive()
is_alive(thread) == thread.pc \notin {"unstarted", "ended"}

\* start_monitoring.  fault "thread_fails": Thread.start() raises (no new
\* thread can be started), the flag is put back and False returned.
start_monitoring_unguarded(m, fault) ==
    [m |-> [monitoring |-> TRUE,
            monitor_thread |-> Len(m.threads) + 1,
            threads |-> Append(m.threads, [pc |-> "while"])],
     ret |-> TRUE]
start_monitoring(m, fault) ==
    IF m.monitoring THEN [m |-> m, ret |-> FALSE]
    ELSE IF fault = "thread_fails"
    THEN [m |-> [monitoring |-> FALSE,
                 monitor_thread |-> Len(m.threads) + 1,
                 threads |-> Append(m.threads, NewThread)],
          ret |-> FALSE]
    ELSE [m |-> [monitoring |-> TRUE,
                 monitor_thread |-> Len(m.threads) + 1,
                 threads |-> Append(m.threads, [pc |-> "while"])],
          ret |-> TRUE]

\* if self.monitor_thread and self.monitor_thread.is_alive()
must_join(m) ==
    m.monitor_thread # NoThread /\ is_alive(m.threads[m.monitor_thread])

\* auto_compress_if_needed: compress_files() when the threshold is reached
auto_compress_unconditionally(w, d, threshold, order, method, t, faults) ==
    LET r == compress_files(w, order, 0, method, t, faults)
    IN  [w |-> r.w, ret |-> r.ret.successful > 0, results |-> r.ret]
auto_compress_if_needed(w, d, threshold, order, method, t, faults) ==
    IF should_trigger_compression(d, threshold)
    THEN LET r == compress_files(w, order, 0, method, t, faults)
         IN  [w |-> r.w, ret |-> r.ret.successful > 0, results |-> r.ret]
    ELSE [w |-> w, ret |-> FALSE, results |-> None]

BecomesMonitor(m) ==
    /\ monitoring' = m.monitoring
    /\ monitor_thread' = m.monitor_thread
    /\ threads' = m.threads

\* a call of the foreground context starts when it is inside no other call
ForegroundIdle == calls["foreground"] = NoCall

StartMonitoring(fault) ==
    /\ ForegroundIdle
    /\ Len(threads) < MaxThreads
    /\ LET r == start_monitoring(Monitor, fault)
       IN  /\ BecomesMonitor(r.m)
           /\ last' = [op |-> "start_monitoring", ret |-> r.ret, fault |-> fault]
    /\ UNCHANGED <<fs, metadata_doc, compressed_files, now, compression_method,
                   disk, disk_threshold, calls>>

\* stop_monitoring up to its return, or up to monitor_thread.join(timeout=5)
StopMonitoring ==
    /\ ForegroundIdle
    /\ IF ~monitoring
       THEN /\ last' = [op |-> "stop_monitoring", ret |-> FALSE]
            /\ UNCHANGED <<monitoring, calls>>
       ELSE /\ monitoring' = FALSE
            /\ IF must_join(Monitor)
               THEN /\ calls' = [calls EXCEPT !["foreground"] = [pc |-> "join"]]
                    /\ last' = [op |-> "join"]
               ELSE /\ last' = [op |-> "stop_monitoring", ret |-> TRUE]
                    /\ UNCHANGED calls
    /\ UNCHANGED <<fs, metadata_doc, compressed_files, now, compression_method,
                   disk, disk_threshold, monitor_thread, threads>>

\* join(timeout=5) returns: the thread has ended, or the five seconds are
\* over with the thread still alive; stop_monitoring returns True
JoinReturns(timed_out) ==
    /\ calls["foreground"] = [pc |-> "join"]
    /\ timed_out <=> is_alive(threads[monitor_thread])
    /\ calls' = [calls EXCEPT !["foreground"] = NoCall]
    /\ last' = [op |-> "stop_monitoring", ret |-> TRUE]
    /\ UNCHANGED <<fs, metadata_doc, compressed_files, now, compression_method,
                   disk, disk_threshold, monitoring, monitor_thread, threads>>

At(thread, pc) == thread \in DOMAIN threads /\ threads[thread].pc = pc
Goes(thread, pc) == threads' = [threads EXCEPT ![thread] = [pc |-> pc]]

\* while self.monitoring: the body is entered, or the loop is left and the
\* thread ends
while_monitoring_ignored(flag) == "cycle"
while_monitoring(flag) == IF flag THEN "cycle" ELSE "ended"

LoopTest(thread) ==
    /\ At(thread, "while")
    /\ Goes(thread, while_monitoring(monitoring))
    /\ last' = [op |-> "_monitor_loop", thread |-> thread, at |-> "while"]
    /\ UNCHANGED <<fs, metadata_doc, compressed_files, now, compression_method,
                   disk, disk_threshold, monitoring, monitor_thread, calls>>

\* self.auto_compress_if_needed()
LoopCycle(thread, order) ==
    /\ At(thread, "cycle")
    /\ \A path \in Originals : NameWithinBound(fs, path, compression_method)
    /\ LET r == auto_compress_if_needed(World, disk, disk_threshold, order,
                    compression_method, now, [q \in Originals |-> "none"])
       IN  /\ Becomes(r.w)
           /\ last' = [op |-> "_monitor_loop", thread |-> thread, at |-> "cycle",
                       ret |-> r.ret, results |-> r.results]
    /\ Goes(thread, "sleep")
    /\ UNCHANGED <<now, compression_method, disk, disk_threshold, monitoring,
                   monitor_thread, calls>>

\* time.sleep(self.monitor_interval) is over
LoopWakes(thread) ==
    /\ At(thread, "sleep")
    /\ Goes(thread, "while")
    /\ last' = [op |-> "_monitor_loop", thread |-> thread, at |-> "sleep"]
    /\ UNCHANGED <<fs, metadata_doc, compressed_files, now, compression_method,
                   disk, disk_threshold, monitoring, monitor_thread, calls>>

\* the usage of the disk changes
EnvDiskUsage(d) ==
    /\ disk # d
    /\ disk' = d
    /\ last' = Env
    /\ UNCHANGED <<fs, metadata_doc, compressed_files, now, compression_method,
                   disk_threshold, monitoring, monitor_thread, threads, calls>>

DiskStates == {Disk(MaxTotal, 0, FALSE), Disk(MaxTotal, MaxTotal, FALSE), Disk(0, 0, TRUE)}

InitMonitor ==
    /\ fs \in {NoFiles} \cup {[p \in {report_txt} |-> File(Raw(d), 0)] : d \in Data}
    /\ metadata_doc = "valid"
    /\ compressed_files = NoFiles
    /\ now = 0
    /\ compression_method = "gzip"
    /\ disk \in DiskStates
    /\ disk_threshold = default_disk_threshold
    /\ NothingRunning
    /\ last = [op |-> "init"]

NextMonitor ==
    \/ \E fault \in {"none", "thread_fails"} : StartMonitoring(fault)
    \/ StopMonitoring
    \/ \E timed_out \in BOOLEAN : JoinReturns(timed_out)
    \/ \E thread \in DOMAIN threads : LoopTest(thread)
    \/ \E thread \in DOMAIN threads, order \in WalkOrders(fs) : LoopCycle(thread, order)
    \/ \E thread \in DOMAIN threads : LoopWakes(thread)
    \/ \E d \in DiskStates : EnvDiskUsage(d)

SpecMonitor == InitMonitor /\ [][NextMonitor]_vars

---------------------------------------------------------------------------
(* Two contexts at once.  The monitor's cycle and the caller of the public *)
(* operations share the directory and the ledger document without any lock; *)
(* a call is followed statement by statement: each action is one access to *)
(* the filesystem or to the ledger document, with the locals of the call   *)
(* kept in calls[c].                                                       *)

Concurrent == [op |-> "concurrent"]

Inside(c, pc) == calls[c].pc = pc
Local(c, call) == calls' = [calls EXCEPT ![c] = call]

\* compress_file, lines 77-91: os.path.exists(original_path), and the loop
\* that looks for a free artifact name
CompressFileBegins(c, path) ==
    /\ Inside(c, "idle")
    /\ path \in DOMAIN fs
    /\ NameWithinBound(fs, path, compression_method)
    /\ compression_method \in Methods
    /\ Local(c, [pc |-> "compress", op |-> "compress_file", path |-> path,
                 size |-> analyze_file(fs, path).size,
                 compressed_path |-> free_name(fs, path, compression_method, 0)])
    /\ last' = Concurrent
    /\ UNCHANGED <<fs, metadata_doc, compressed_files, now, compression_method,
                   disk, disk_threshold, monitoring, monitor_thread, threads>>

\* lines 94-104: _compress_gzip / _compress_zlib open the input, then write
\* the output whatever is at compressed_path by now; an input that is gone
\* raises and the call returns False
CompressFileWrites(c) ==
    /\ Inside(c, "compress")
    /\ LET call == calls[c]
           r == compress_stream(fs, compression_method, call.path, call.compressed_path,
                                now, IF call.path \in DOMAIN fs THEN "none"
                                     ELSE "compress_fails")
       IN  /\ fs' = r.fs
           /\ Local(c, IF r.ret
                       THEN [call EXCEPT !.pc = "mark_load"] @@
                            [overwrote |-> call.compressed_path \in DOMAIN fs]
                       ELSE [call EXCEPT !.pc = "done"] @@
                            [ret |-> FALSE, marked |-> FALSE])
    /\ last' = Concurrent
    /\ UNCHANGED <<metadata_doc, compressed_files, now, compression_method,
                   disk, disk_threshold, monitoring, monitor_thread, threads>>

\* lines 107-114, mark_as_compressed lines 73-78: os.path.getsize, then
\* _load_metadata and the hash of the original if it still exists
MarkLoads(c) ==
    /\ Inside(c, "mark_load")
    /\ calls[c].compressed_path \in DOMAIN fs
    /\ LET call == calls[c]
           m == load_metadata(World)
       IN  /\ Becomes(m)
           /\ Local(c, [call EXCEPT !.pc = "mark_save"] @@
                       [metadata |-> m.files,
                        compressed_size |-> SizeOf(fs[call.compressed_path].content),
                        original_hash |->
                            IF call.path \in DOMAIN fs
                            THEN calculate_file_hash(fs[call.path].content)
                            ELSE NoHash])
    /\ last' = Concurrent
    /\ UNCHANGED <<now, compression_method, disk, disk_threshold, monitoring,
                   monitor_thread, threads>>

\* mark_as_compressed lines 81-99: the entry is put into the loaded document
\* and the whole document is written
MarkSaves(c) ==
    /\ Inside(c, "mark_save")
    /\ LET call == calls[c]
           file_metadata ==
               [original_path |-> call.path,
                compressed_path |-> call.compressed_path,
                original_size |-> call.size,
                compressed_size |-> call.compressed_size,
                compression_method |-> compression_method,
                original_hash |-> call.original_hash,
                file_type |-> splitext(call.path)]
       IN  /\ Becomes(save_metadata(World,
                          store_entry(call.metadata, call.path, file_metadata)))
           /\ Local(c, [pc |-> "remove", op |-> call.op, path |-> call.path,
                        compressed_path |-> call.compressed_path,
                        overwrote |-> call.overwrote, marked |-> TRUE])
    /\ last' = Concurrent
    /\ UNCHANGED <<now, compression_method, disk, disk_threshold, monitoring,
                   monitor_thread, threads>>

\* compress_file lines 117-128: os.remove(original_path), a failure of which
\* is logged; return True
CompressFileRemoves(c) ==
    /\ Inside(c, "remove")
    /\ fs' = IF calls[c].path \in DOMAIN fs
             THEN remove_original(fs, calls[c].path, "none") ELSE fs
    /\ Local(c, [calls[c] EXCEPT !.pc = "done"] @@ [ret |-> TRUE])
    /\ last' = Concurrent
    /\ UNCHANGED <<metadata_doc, compressed_files, now, compression_method,
                   disk, disk_threshold, monitoring, monitor_thread, threads>>

\* unmark_compressed lines 132-141: _load_metadata; False when the path has
\* no entry
UnmarkLoads(c, path) ==
    /\ Inside(c, "idle")
    /\ LET m == load_metadata(World)
       IN  /\ Becomes(m)
           /\ Local(c, IF path \in DOMAIN m.files
                       THEN [pc |-> "unmark_save", op |-> "unmark_compressed",
                             path |-> path, metadata |-> m.files]
                       ELSE [pc |-> "done", op |-> "unmark_compressed",
                             path |-> path, ret |-> FALSE])
    /\ last' = Concurrent
    /\ UNCHANGED <<now, compression_method, disk, disk_threshold, monitoring,
                   monitor_thread, threads>>

\* unmark_compressed lines 135-138: the entry is deleted from the loaded
\* document and the whole document is written
UnmarkSaves(c) ==
    /\ Inside(c, "unmark_save")
    /\ Becomes(save_metadata(World, delete_entry(calls[c].metadata, calls[c].path)))
    /\ Local(c, [pc |-> "done", op |-> "unmark_compressed", path |-> calls[c].path,
                 ret |-> TRUE])
    /\ last' = Concurrent
    /\ UNCHANGED <<now, compression_method, disk, disk_threshold, monitoring,
                   monitor_thread, threads>>

\* a directory in which the files of some ledger entries have been compressed
\* and files are at some of the original paths
RaceDirectories(ledger) ==
    {[p \in DOMAIN originals \cup {ledger[k].compressed_path : k \in DOMAIN ledger} |->
         IF p \in DOMAIN originals THEN originals[p] ELSE ArtifactFor(p, 2)] :
     originals \in UNION {[S -> {File(Raw(d), 0) : d \in Data}] : S \in SUBSET Originals}}

InitRace ==
    /\ compressed_files \in RaceLedgers
    /\ fs \in RaceDirectories(compressed_files)
    /\ metadata_doc = "valid"
    /\ now = 0
    /\ compression_method = "gzip"
    /\ disk = Disk(MaxTotal, 0, FALSE)
    /\ disk_threshold = default_disk_threshold
    /\ NothingRunning
    /\ last = [op |-> "init"]

\* each context makes one call: the monitor's cycle compresses, the caller
\* compresses or unmarks
NextRace ==
    \/ \E c \in Contexts, path \in Originals : CompressFileBegins(c, path)
    \/ \E c \in Contexts : CompressFileWrites(c)
    \/ \E c \in Contexts : MarkLoads(c)
    \/ \E c \in Contexts : MarkSaves(c)
    \/ \E c \in Contexts : CompressFileRemoves(c)
    \/ \E path \in Originals : UnmarkLoads("foreground", path)
    \/ UnmarkSaves("foreground")

SpecRace == InitRace /\ [][NextRace]_vars

---------------------------------------------------------------------------------------------------------------------------------------------
(* Two compression cycles at once: the monitor's compress_files and the    *)
(* caller's, each followed from the scan that selects a file to the return *)
(* of compress_file for it.                                                *)

\* compress_files lines 137-140, get_priority_files: the scan finds the
\* file compressible (_is_compressible: no ledger entry, the file exists)
CycleSelects(c, path) ==
    /\ Inside(c, "idle")
    /\ path \in DOMAIN fs
    /\ LET r == is_compressible(World, analyze_file(fs, path))
       IN  /\ r.ret
           /\ Becomes(r.w)
    /\ Local(c, [pc |-> "selected", op |-> "compress_files", path |-> path])
    /\ last' = Concurrent
    /\ UNCHANGED <<now, compression_method, disk, disk_threshold, monitoring,
                   monitor_thread, threads>>

\* compress_files lines 158-161: compress_file of the selected file, lines
\* 77-91: False when the file is gone, else the free artifact name
CycleCompresses(c) ==
    /\ Inside(c, "selected")
    /\ LET path == calls[c].path
       IN  IF path \notin DOMAIN fs
           THEN Local(c, [pc |-> "done", op |-> "compress_file", path |-> path,
                          ret |-> FALSE, marked |-> FALSE])
           ELSE /\ NameWithinBound(fs, path, compression_method)
                /\ Local(c, [pc |-> "compress", op |-> "compress_file", path |-> path,
                             size |-> analyze_file(fs, path).size,
                             compressed_path |->
                                 free_name(fs, path, compression_method, 0)])
    /\ last' = Concurrent
    /\ UNCHANGED <<fs, metadata_doc, compressed_files, now, compression_method,
                   disk, disk_threshold, monitoring, monitor_thread, threads>>

\* each context runs one cycle on one file
NextCycles ==
    \/ \E c \in Contexts, path \in Originals : CycleSelects(c, path)
    \/ \E c \in Contexts : CycleCompresses(c)
    \/ \E c \in Contexts : CompressFileWrites(c)
    \/ \E c \in Contexts : MarkLoads(c)
    \/ \E c \in Contexts : MarkSaves(c)
    \/ \E c \in Contexts : CompressFileRemoves(c)

SpecCycles == InitRace /\ [][NextCycles]_vars

---------
(* One iteration of _monitor_loop, step by step: the thread is followed    *)
(* through auto_compress_if_needed, file by file of the batch, and through *)
(* the handler of an exception raised inside the iteration.                *)

monitor_interval == 60

\* the thread is inside time.sleep(seconds)
Sleeping(pc, seconds) == [pc |-> pc, seconds |-> seconds]

\* except Exception as e: log_error, then time.sleep(self.monitor_interval)
on_error_ends(interval) == [pc |-> "ended"]
on_error(interval) == Sleeping("except", interval)

\* the iteration is over: time.sleep(self.monitor_interval)
end_of_iteration(interval) == Sleeping("sleep", interval)

Alters(thread, record) == threads' = [threads EXCEPT ![thread] = record]

\* an exception is raised inside the iteration, outside the calls that catch
\* their own (compress_file, scan_directory, get_disk_usage): the handler
LoopRaises(thread) ==
    /\ thread \in DOMAIN threads
    /\ threads[thread].pc \in {"cycle", "compress"}
    /\ Alters(thread, on_error(monitor_interval))
    /\ last' = [op |-> "_monitor_loop", thread |-> thread, at |-> threads[thread].pc,
                raised |-> TRUE]
    /\ UNCHANGED <<fs, metadata_doc, compressed_files, now, compression_method,
                   disk, disk_threshold, monitoring, monitor_thread, calls>>

\* auto_compress_if_needed up to the loop of compress_files:
\* should_trigger_compression, then get_priority_files
LoopSelects(thread, order) ==
    /\ At(thread, "cycle")
    /\ \A path \in Originals : NameWithinBound(fs, path, compression_method)
    /\ last' = [op |-> "_monitor_loop", thread |-> thread, at |-> "cycle",
                raised |-> FALSE]
    /\ IF ~should_trigger_compression(disk, disk_threshold)
       THEN /\ Alters(thread, end_of_iteration(monitor_interval))
            /\ UNCHANGED <<fs, metadata_doc, compressed_files>>
       ELSE \E p \in {get_priority_files(World, order, max_files_per_batch,
                                          default_min_priority, now)} :
                /\ Becomes(p.w)
                /\ Alters(thread, IF p.ret = <<>> THEN end_of_iteration(monitor_interval)
                                  ELSE [pc |-> "compress", files |-> p.ret])
    /\ UNCHANGED <<now, compression_method, disk, disk_threshold, monitoring,
                   monitor_thread, calls>>

\* for file_info in priority_files: compress_file of the next file of the
\* batch; after the last one, the results and the end of the iteration
LoopCompresses(thread) ==
    /\ At(thread, "compress")
    /\ LET files == threads[thread].files
       IN  /\ Alters(thread, IF Tail(files) = <<>>
                             THEN end_of_iteration(monitor_interval)
                             ELSE [pc |-> "compress", files |-> Tail(files)])
           /\ \E c \in {compress_file(World, Head(files), compression_method,
                                      now, "none")} :
                 /\ Becomes(c.w)
                 /\ last' = [op |-> "_monitor_loop", thread |-> thread,
                             at |-> "compress", raised |-> FALSE,
                             path |-> Head(files).path, ret |-> c.ret]
    /\ UNCHANGED <<now, compression_method, disk, disk_threshold, monitoring,
                   monitor_thread, calls>>

\* time.sleep is over, in the body or in the handler
LoopSleeps(thread) ==
    /\ thread \in DOMAIN threads
    /\ threads[thread].pc \in {"sleep", "except"}
    /\ Goes(thread, "while")
    /\ last' = [op |-> "_monitor_loop", thread |-> thread, at |-> threads[thread].pc,
                seconds |-> threads[thread].seconds]
    /\ UNCHANGED <<fs, metadata_doc, compressed_files, now, compression_method,
                   disk, disk_threshold, monitoring, monitor_thread, calls>>

\* a step of the loop thread
LoopStep(thread) ==
    \/ LoopTest(thread)
    \/ LoopSleeps(thread)
    \/ LoopRaises(thread)
    \/ \E order \in WalkOrders(fs) : LoopSelects(thread, order)
    \/ LoopCompresses(thread)

InitLoop ==
    /\ fs = [p \in Tracked |-> File(Raw(2), 0)]
    /\ metadata_doc = "valid"
    /\ compressed_files = NoFiles
    /\ now = MaxNow
    /\ compression_method = "gzip"
    /\ disk \in {Disk(MaxTotal, 0, FALSE), Disk(MaxTotal, MaxTotal, FALSE)}
    /\ disk_threshold = default_disk_threshold
    /\ NothingRunning
    /\ last = [op |-> "init"]

NextLoop ==
    \/ StartMonitoring("none")
    \/ StopMonitoring
    \/ \E timed_out \in BOOLEAN : JoinReturns(timed_out)
    \/ \E thread \in DOMAIN threads : LoopStep(thread)

SpecLoop == InitLoop /\ [][NextLoop]_vars

\* the scheduler lets every loop thread run: a sleep ends, a call returns
FairLoop == SpecLoop /\ \A thread \in 1..MaxThreads : WF_vars(LoopStep(thread))

---------------------------------------------------------------------------
(* Two files side by side: compress_file and decompress_file on one path,  *)
(* with every fault of the call, while the other path has its own file or  *)
(* its own entry                                                           *)

\* what there is for one original path before the call: a ledger entry or
\* none, recorded with the hash of the original or without, a file at the
\* path or none, and at the artifact's path nothing, the
\* stream of the entry, or a file that is no stream
PathStates ==
    [entry : BOOLEAN, hashed : BOOLEAN, file : BOOLEAN,
     artifact : {"none", "sound", "other", "damaged"}, recorded : {"gzip", "bz2"}]

PathsDirectory(state) ==
    [p \in {q \in Originals : state[q].file}
           \cup {artifact_name(q, "gzip", 0) :
                    q \in {x \in Originals : state[x].artifact # "none"}} |->
        IF p \in Originals THEN File(Raw(1), 0)
        ELSE IF state[SubSeq(p, 1, 2)].artifact = "sound" THEN ArtifactFor(p, 2)
        ELSE IF state[SubSeq(p, 1, 2)].artifact = "other" THEN ArtifactFor(p, 1)
        ELSE Artifact(EmptyContent)]

\* the method of an entry is what the caller of mark_as_compressed passed
PathsLedger(state) ==
    [p \in {q \in Originals : state[q].entry} |->
        [EntryFor(p, 2, state[p].hashed) EXCEPT
            !.compression_method = state[p].recorded]]

InitPaths ==
    /\ \E state \in [Originals -> PathStates] :
          /\ fs = PathsDirectory(state)
          /\ compressed_files = PathsLedger(state)
    /\ metadata_doc = "valid"
    /\ now = MaxNow
    /\ compression_method \in ConfigurableMethods
    /\ disk = Disk(MaxTotal, 0, FALSE)
    /\ disk_threshold = default_disk_threshold
    /\ NothingRunning
    /\ last = [op |-> "init"]

UnmarkFaults == DecompressFaults \cup SaveFaults

\* no call has been made yet
FirstCall == last.op = "init"

\* one call on one of the two paths
NextPaths ==
    \/ \E path \in Originals, fault \in CompressFaults :
          FirstCall /\ CompressFile(path, fault)
    \/ \E path \in Originals, verify_integrity \in BOOLEAN,
          fault \in UnmarkFaults \cup BackupFaults :
          FirstCall /\ DecompressFile(path, verify_integrity, fault)
    \/ \E path \in Originals, fault \in {"none", "hash_fails"} \cup SaveFaults :
          FirstCall /\ MarkAsCompressed(path, fault)

SpecPaths == InitPaths /\ [][NextPaths]_vars

---------------------------------------------------------------------------
(* calculate_priority_scores on lists of files whose access times lie      *)
(* before, at and after the time of the call                               *)

ScoredDirectories ==
    UNION {[paths -> {File(Raw(d), t) : d \in Data, t \in 0..MaxAge}] :
              paths \in SUBSET Originals}

InitScores ==
    /\ fs \in ScoredDirectories
    /\ metadata_doc = "valid"
    /\ compressed_files = NoFiles
    /\ now \in 0..MaxAge
    /\ compression_method = "gzip"
    /\ disk = Disk(MaxTotal, 0, FALSE)
    /\ disk_threshold = default_disk_threshold
    /\ NothingRunning
    /\ last = [op |-> "init"]

\* calculate_priority_scores(files) with the FileInfo of the files in order
CalculatePriorityScores(order) ==
    /\ last' = [op |-> "calculate_priority_scores",
                ret |-> calculate_priority_scores(
                            [i \in 1..Len(order) |-> analyze_file(fs, order[i])], now)]
    /\ UNCHANGED <<fs, metadata_doc, compressed_files, now, compression_method,
                   disk, disk_threshold, monitoring, monitor_thread, threads, calls>>

NextScores ==
    \E order \in ScanOrders(fs) : CalculatePriorityScores(order)

SpecScores == InitScores /\ [][NextScores]_vars

---------------------------------------------------------------------------
(* Cycles over a directory that comes to hold what the system has written  *)
(* there: a user stores a file, compress_files runs on what the scan       *)
(* returns, the user stores the file again, decompress_file restores it    *)

InitCreated ==
    /\ fs = NoFiles
    /\ metadata_doc = "valid"
    /\ compressed_files = NoFiles
    /\ now = 0
    /\ compression_method \in Methods
    /\ disk = Disk(MaxTotal, 0, FALSE)
    /\ disk_threshold = default_disk_threshold
    /\ NothingRunning
    /\ last = [op |-> "init"]

\* compress_files() on a listing of everything in the directory
CompressListed(order) ==
    /\ \A path \in DOMAIN fs : NameWithinBound(fs, path, compression_method)
    /\ LET r == compress_files(World, order, 0, compression_method, now,
                               [q \in DOMAIN fs |-> "none"])
       IN  /\ Becomes(r.w)
           /\ last' = [op |-> "compress_files", ret |-> r.ret,
                       selected |-> r.selected, attempts |-> r.attempts]
    /\ UNCHANGED <<now, compression_method, disk, disk_threshold, monitoring,
                   monitor_thread, threads, calls>>

NextCreated ==
    \/ \E path \in Tracked, d \in Data : EnvCreateFile(path, d)
    \/ \E order \in ScanOrders(fs) : CompressListed(order)
    \/ \E path \in Tracked, verify_integrity \in BOOLEAN,
          fault \in DecompressFaults \cup BackupFaults :
          DecompressFile(path, verify_integrity, fault)

SpecCreated == InitCreated /\ [][NextCreated]_vars

---------------------------------------------------------------------------
(* The claims                                                              *)

\* C1: every entry the ledger holds is reported compressed by is_compressed
\* under its own original_path, and right after unmark_compressed(p) has
\* returned True, is_compressed(p) is False.
C1_LedgerConsistency ==
    /\ \A k \in DOMAIN compressed_files :
          is_compressed(World, compressed_files[k].original_path).ret
    /\ (last.op = "unmark_compressed" /\ last.ret)
          => ~is_compressed(World, last.path).ret

\* an entry has just been removed by unmark_compressed
C1_Witness ==
    /\ last.op = "unmark_compressed" /\ last.ret
    /\ metadata_doc = "valid"
    /\ fs # NoFiles

\* The file that decompress_file leaves at the path a compress_file call has
\* just returned True for, for either value of verify_integrity.
Restored(verify_integrity) ==
    decompress_file(World, last.path, verify_integrity, now, "none")

\* C2: a successful compress_file followed by a successful decompress_file of
\* the same path leaves at the path the content the file had before it was
\* compressed.
C2_RoundTripContent ==
    (last.op = "compress_file" /\ last.ret) =>
        \A verify_integrity \in BOOLEAN :
            Restored(verify_integrity).ret =>
                /\ last.path \in DOMAIN Restored(verify_integrity).w.fs
                /\ Restored(verify_integrity).w.fs[last.path].content = last.before.content

\* C3: a successful compress_file followed by a successful decompress_file of
\* the same path leaves a file with the access and modification times the
\* file had before it was compressed.
C3_RoundTripTimestamps ==
    (last.op = "compress_file" /\ last.ret) =>
        \A verify_integrity \in BOOLEAN :
            Restored(verify_integrity).ret =>
                /\ last.path \in DOMAIN Restored(verify_integrity).w.fs
                /\ Restored(verify_integrity).w.fs[last.path].atime = last.before.atime
                /\ Restored(verify_integrity).w.fs[last.path].mtime = last.before.mtime

\* The entry of path has a hash, its artifact decompresses, and the hash of
\* what it decompresses to is not the stored one.
HashMismatch(path) ==
    /\ path \in DOMAIN compressed_files
    /\ compressed_files[path].compressed_path \in DOMAIN fs
    /\ compressed_files[path].compression_method \in Methods
    /\ CanDecode(compressed_files[path].compression_method,
                 fs[compressed_files[path].compressed_path].content)
    /\ compressed_files[path].original_hash # NoHash
    /\ calculate_file_hash(Decode(compressed_files[path].compression_method,
                                  fs[compressed_files[path].compressed_path].content))
          # compressed_files[path].original_hash

\* a step that is a call decompress_file(path, verify_integrity=True) on a
\* hash mismatch
IntegrityFailingCall(path) ==
    /\ HashMismatch(path)
    /\ last'.op = "decompress_file"
    /\ last'.path = path
    /\ last'.verify_integrity

\* C4: decompress_file with verify_integrity=True on an entry whose stored hash
\* is not the hash of the decompressed output returns False, and a file that
\* was at the original path before the call is there after it with the content
\* it had.
C4_IntegrityEnforcement ==
    [][\A path \in Tracked :
         IntegrityFailingCall(path) =>
            /\ ~last'.ret
            /\ path \in DOMAIN fs =>
                  (path \in DOMAIN fs' /\ fs'[path].content = fs[path].content)]_vars

\* the call failed on the hash, and the file at the original path is not what
\* the artifact decompresses to: it is the file that was there, put back
C4_Witness ==
    /\ last.op = "decompress_file" /\ last.verify_integrity /\ ~last.ret
    /\ last.why = "File integrity verification failed"
    /\ HashMismatch(last.path)
    /\ last.path \in DOMAIN fs
    /\ fs[last.path].content #
          Decode(compressed_files[last.path].compression_method,
                 fs[compressed_files[last.path].compressed_path].content)

\* C5: after a decompress_file call that fails the integrity verification the
\* filesystem is what it was before the call, whether or not a file was at the
\* original path.
C5_FilesystemAsBefore ==
    [][\A path \in Tracked : IntegrityFailingCall(path) => fs' = fs]_vars

\* a step that is a call decompress_file(path) on a path without ledger entry
NotFoundCall(path) ==
    /\ path \notin DOMAIN compressed_files
    /\ last'.op = "decompress_file"
    /\ last'.path = path

\* C6 as stated: decompress_file on a path without ledger entry returns False,
\* changes no file and does not rewrite the ledger document.
C6_NotFoundTouchesNothing ==
    [][\A path \in Tracked :
         NotFoundCall(path) =>
            /\ ~last'.ret
            /\ fs' = fs
            /\ metadata_doc' = metadata_doc
            /\ compressed_files' = compressed_files]_vars

\* C6 as amended: decompress_file on a path without ledger entry returns False
\* and changes no file of the directory; a valid ledger document is not
\* rewritten, an absent or unparsable one is replaced by an empty document.
C6_NotFoundTouchesNoFile ==
    [][\A path \in Tracked :
         NotFoundCall(path) =>
            /\ ~last'.ret
            /\ last'.why = "File not found in compression metadata"
            /\ fs' = fs
            /\ compressed_files' = compressed_files
            /\ metadata_doc' = "valid"]_vars

\* the call found no entry, with files in the directory and the ledger
\* document re-created
C6_Witness ==
    /\ last.op = "decompress_file" /\ ~last.ret
    /\ last.why = "File not found in compression metadata"
    /\ last.path \in DOMAIN fs
    /\ \E path \in DOMAIN fs : IsArtifact(path)

\* C7: a path that has a ledger entry is returned by no scan_directory and no
\* get_priority_files call, also when a file is present at the path.
C7_MarkedNeverReturned ==
    last.op \in {"scan_directory", "get_priority_files"} =>
        \A i \in DOMAIN last.ret : last.ret[i].path \notin DOMAIN compressed_files

\* a scan returned files while a marked path held a file that passes every
\* other test of eligibility
C7_Witness ==
    /\ last.op = "scan_directory"
    /\ last.ret # <<>>
    /\ \E path \in DOMAIN compressed_files :
          /\ path \in DOMAIN fs
          /\ SizeOf(fs[path].content) >= min_file_size
          /\ splitext(path) \in supported_extensions

\* C8: the list get_priority_files returns is sorted by non-increasing
\* priority score: a file with a strictly larger score comes first.
C8_PriorityOrdering ==
    last.op = "get_priority_files" =>
        \A i, j \in DOMAIN last.ret :
            Above(last.ret[i].priority_score, last.ret[j].priority_score) => i < j

\* three files were returned, with three different scores
C8_Witness ==
    /\ last.op = "get_priority_files"
    /\ Len(last.ret) = 3
    /\ Above(last.ret[1].priority_score, last.ret[2].priority_score)
    /\ Above(last.ret[2].priority_score, last.ret[3].priority_score)

\* C9: should_trigger_compression returns True when the used-percent the query
\* gives is at least disk_threshold, False when it is below, and False when
\* the query fails.
C9_ThresholdTrigger ==
    last.op = "should_trigger_compression" =>
        IF get_disk_usage(disk) = NoDiskInfo THEN ~last.ret
        ELSE last.ret <=> (disk.used * 100 >= disk_threshold * disk.total)

\* the call returned True with the usage exactly at the threshold
C9_Witness ==
    /\ last.op = "should_trigger_compression" /\ last.ret
    /\ disk_threshold = default_disk_threshold
    /\ disk.total > 0
    /\ disk.used * 100 = disk_threshold * disk.total

ZeroStats ==
    [total_files |-> 0, total_original_size |-> 0, total_compressed_size |-> 0,
     total_space_saved |-> 0, average_compression_ratio |-> Fraction(0, 1)]

\* C10: get_compression_stats on an empty ledger returns 0 in all five fields,
\* and on a ledger whose original sizes sum to 0 it returns statistics whose
\* average ratio is 0 (no division error).
C10_StatsWithoutDivision ==
    last.op = "get_compression_stats" =>
        /\ compressed_files = NoFiles => last.ret = ZeroStats
        /\ sum_of(compressed_files, DOMAIN compressed_files, "original_size") = 0 =>
              /\ last.ret # NoStats
              /\ last.ret.total_files = Cardinality(DOMAIN compressed_files)
              /\ last.ret.average_compression_ratio.num = 0

\* the statistics of a ledger that is not empty and whose original sizes sum to 0
C10_Witness ==
    /\ last.op = "get_compression_stats"
    /\ compressed_files # NoFiles
    /\ sum_of(compressed_files, DOMAIN compressed_files, "original_size") = 0
    /\ sum_of(compressed_files, DOMAIN compressed_files, "compressed_size") > 0

\* C11: after a successful compress_file(f) with method gzip the ledger holds
\* an entry keyed by f.path with compression_method "gzip" and original_size
\* f.size, the artifact the entry names exists, no file is at f.path, and
\* is_compressed(f.path) is True.
C11_CompressPostcondition ==
    (last.op = "compress_file" /\ last.ret /\ compression_method = "gzip") =>
        /\ last.path \in DOMAIN compressed_files
        /\ compressed_files[last.path].original_path = last.path
        /\ compressed_files[last.path].compression_method = "gzip"
        /\ compressed_files[last.path].original_size = SizeOf(last.before.content)
        /\ compressed_files[last.path].compressed_path \in DOMAIN fs
        /\ last.path \notin DOMAIN fs
        /\ is_compressed(World, last.path).ret

\* a step that is a call of start_monitoring, and one that is a return of
\* stop_monitoring
StartCall == last'.op = "start_monitoring"
StopReturn == last'.op = "stop_monitoring"

\* what C12 says of stop_monitoring: called while Stopped it returns False and
\* the state stays Stopped, called while Running it returns True and the state
\* is Stopped
StopContract ==
    /\ StopReturn =>
          /\ last'.ret <=> (monitoring \/ calls["foreground"].pc = "join")
          /\ ~monitoring'
          /\ threads' = threads
    /\ last'.op = "join" => (monitoring /\ ~monitoring')

\* C12 as stated: start_monitoring while Running returns False, starts no
\* thread and leaves the state Running; start from Stopped returns True and
\* yields Running; stop_monitoring while Stopped returns False and leaves the
\* state Stopped; stop from Running returns True and yields Stopped.
C12_MonitorStateMachine ==
    [][/\ StartCall =>
            IF monitoring
            THEN ~last'.ret /\ monitoring' /\ threads' = threads
            ELSE last'.ret /\ monitoring'
       /\ StopContract]_vars

\* C12 as amended: as stated, except that start_monitoring from Stopped returns
\* False and leaves the state Stopped, with no loop running, when the thread
\* cannot be started.
C12_MonitorStateMachineOrNoThread ==
    [][/\ StartCall =>
            IF monitoring
            THEN /\ ~last'.ret /\ monitoring' /\ threads' = threads
                 /\ monitor_thread' = monitor_thread
            ELSE IF last'.fault = "thread_fails"
            THEN /\ ~last'.ret /\ ~monitoring'
                 /\ \A t \in DOMAIN threads' \ DOMAIN threads : ~is_alive(threads'[t])
            ELSE /\ last'.ret /\ monitoring'
                 /\ is_alive(threads'[monitor_thread'])
                 /\ Len(threads') = Len(threads) + 1
       /\ StopContract]_vars

\* start_monitoring has just been refused while a loop of an earlier start
\* is running
C12_Witness ==
    /\ last.op = "start_monitoring" /\ ~last.ret /\ last.fault = "none"
    /\ monitoring
    /\ \E t \in DOMAIN threads : is_alive(threads[t])

\* the loops that are alive
alive_loops == {t \in DOMAIN threads : is_alive(threads[t])}

\* C13: at most one monitoring loop is alive at any time, whatever the
\* sequence of start_monitoring and stop_monitoring calls.
C13_OneLoopAlive == Cardinality(alive_loops) <= 1

\* both contexts have finished their call
BothDone == \A c \in Contexts : calls[c].pc = "done"

\* the ledger shows what the finished call did to the entry of its path
Reflected(call) ==
    CASE call.op = "compress_file" /\ call.marked ->
            /\ call.path \in DOMAIN compressed_files
            /\ compressed_files[call.path].compressed_path = call.compressed_path
      [] call.op = "unmark_compressed" /\ call.ret ->
            call.path \notin DOMAIN compressed_files
      [] OTHER -> TRUE

\* C14: when the monitor's mark_as_compressed for a path and the caller's
\* unmark_compressed or mark_as_compressed for another path have both
\* completed, the ledger reflects both mutations.
C14_NoLostUpdate ==
    (BothDone /\ calls["monitor"].path # calls["foreground"].path) =>
        \A c \in Contexts : Reflected(calls[c])

\* the compress_file calls that have written their artifact
Written == {c \in Contexts : "overwrote" \in DOMAIN calls[c]}

\* C16: the path compress_file writes its artifact to is the original path
\* with "." and the method, or that name with a numeric suffix, and no file
\* was at that path when the artifact was written, also when two compress_file
\* calls run at once.
C16_NeverOverwrites ==
    \A c \in Written :
        /\ calls[c].compressed_path \in
              {artifact_name(calls[c].path, compression_method, k) : k \in 0..MaxCounter}
        /\ ~calls[c].overwrote

\* a step in which the entry of path appears or is replaced, and one in which
\* it disappears
EntryWritten(path) ==
    /\ path \in DOMAIN compressed_files'
    /\ path \in DOMAIN compressed_files => compressed_files'[path] # compressed_files[path]
EntryRemoved(path) ==
    path \in DOMAIN compressed_files /\ path \notin DOMAIN compressed_files'

\* a step that is the call op on path, returning True
Succeeds(op, path) == last'.op = op /\ last'.path = path /\ last'.ret = TRUE

\* C15: an entry is kept under its own original path; the entry of a path is
\* written only by a successful compress_file of that path, and it disappears
\* only through a successful decompress_file of the path, an unmark_compressed
\* of it, or cleanup_invalid_entries finding its artifact missing.  (The
\* steps of the environment are not calls of the engine.)
C15_EntryLifecycle ==
    [][last'.op # "env" =>
         \A path \in Originals :
            /\ path \in DOMAIN compressed_files' =>
                  compressed_files'[path].original_path = path
            /\ EntryWritten(path) => Succeeds("compress_file", path)
            /\ EntryRemoved(path) =>
                  \/ Succeeds("decompress_file", path)
                  \/ Succeeds("unmark_compressed", path)
                  \/ /\ last'.op = "cleanup_invalid_entries"
                     /\ compressed_files[path].compressed_path \notin DOMAIN fs]_vars

\* a step that is a call of compress_file meeting the fault
CompressFileMeets(faults) ==
    /\ last'.op = "compress_file"
    /\ last'.fault \in faults

\* C17: when the compression step of compress_file fails, the call returns
\* False, the original file is still there as it was, and no ledger entry is
\* written.
C17_FailedStepLeavesOriginal ==
    [][CompressFileMeets(StepFaults) =>
         /\ ~last'.ret
         /\ last'.path \in DOMAIN fs'
         /\ fs'[last'.path] = fs[last'.path]
         /\ compressed_files' = compressed_files]_vars

\* the step failed after it had created its output, beside an older entry
\* of the same path
C17_Witness ==
    /\ last.op = "compress_file" /\ last.fault = "output_fails" /\ ~last.ret
    /\ last.path \in DOMAIN fs
    /\ last.path \in DOMAIN compressed_files
    /\ \E k \in 0..MaxCounter :
          /\ artifact_name(last.path, compression_method, k) \in DOMAIN fs
          /\ fs[artifact_name(last.path, compression_method, k)].content = EmptyContent

\* C18: when compress_file has written the artifact and the ledger entry and
\* os.remove of the original fails, the call returns True, the entry and the
\* artifact it names are there, and the original is still on disk as it was.
C18_UndeletableOriginal ==
    [][CompressFileMeets({"remove_fails"}) /\ compression_method \in Methods =>
         /\ last'.ret
         /\ last'.path \in DOMAIN compressed_files'
         /\ compressed_files'[last'.path].compressed_path \in DOMAIN fs'
         /\ compressed_files'[last'.path].compressed_path \notin DOMAIN fs
         /\ last'.path \in DOMAIN fs'
         /\ fs'[last'.path] = fs[last'.path]]_vars

\* the call returned True with the original left beside its artifact
C18_Witness ==
    /\ last.op = "compress_file" /\ last.fault = "remove_fails" /\ last.ret
    /\ last.path \in DOMAIN fs
    /\ last.path \in DOMAIN compressed_files
    /\ compressed_files[last.path].compressed_path \in DOMAIN fs
    /\ fs[last.path] = last.before

\* the number of attempts that returned ret
Count(attempts, ret) == Cardinality({i \in DOMAIN attempts : attempts[i].ret = ret})

\* the attempts are one call for each item, in the order of the items
AttemptsAll(attempts, items) ==
    /\ Len(attempts) = Len(items)
    /\ \A i \in DOMAIN items : attempts[i].path = items[i]

\* C19: compress_files calls compress_file for every file the scanner selected
\* and decompress_all calls decompress_file for every entry listed at its
\* start, whatever the earlier calls returned, and the successful count plus
\* the failed count is the number of items attempted.
C19_BatchNeverAborts ==
    /\ last.op = "compress_files" =>
          /\ AttemptsAll(last.attempts, last.selected)
          /\ last.ret.successful = Count(last.attempts, TRUE)
          /\ last.ret.failed = Count(last.attempts, FALSE)
          /\ last.ret.successful + last.ret.failed = Len(last.attempts)
          /\ last.ret.total_files = Len(last.selected)
    /\ last.op = "decompress_all" =>
          /\ AttemptsAll(last.attempts, last.listed)
          /\ last.ret[1] = Count(last.attempts, TRUE)
          /\ last.ret[2] = Count(last.attempts, FALSE)
          /\ last.ret[1] + last.ret[2] = Len(last.attempts)

\* a batch whose first file failed and whose second file was compressed
C19_Witness ==
    /\ last.op = "compress_files"
    /\ Len(last.attempts) = 2
    /\ ~last.attempts[1].ret
    /\ last.attempts[2].ret
    /\ last.attempts[2].path \in DOMAIN compressed_files

LedgerOps ==
    {"mark_as_compressed", "is_compressed", "get_compressed_file_info",
     "get_all_compressed_files", "unmark_compressed", "get_compression_stats",
     "cleanup_invalid_entries"}

\* what the call answers on an empty ledger
EmptyAnswer(call) ==
    CASE call.op = "mark_as_compressed" -> call.fault \notin SaveFaults
      [] call.op = "is_compressed" -> FALSE
      [] call.op = "get_compressed_file_info" -> None
      [] call.op = "get_all_compressed_files" -> <<>>
      [] call.op = "unmark_compressed" -> FALSE
      [] call.op = "get_compression_stats" -> ZeroStats
      [] call.op = "cleanup_invalid_entries" -> 0

\* C20: a ledger operation that finds the document absent or unparsable leaves
\* a valid empty document (with the one new entry after mark_as_compressed)
\* and returns to its caller what it returns on an empty ledger.  (When the
\* write of the new entry fails, mark_as_compressed returns False and the
\* document is what the failed write leaves of the empty one.)
C20_SelfHealing ==
    [][(last'.op \in LedgerOps /\ metadata_doc # "valid") =>
         /\ last'.ret = EmptyAnswer(last')
         /\ fs' = fs
         /\ IF last'.op = "mark_as_compressed" /\ last'.ret
            THEN /\ metadata_doc' = "valid"
                 /\ DOMAIN compressed_files' = {last'.path}
            ELSE IF last'.op = "mark_as_compressed" /\ last'.fault = "write_fails"
            THEN /\ metadata_doc' = "unparsable"
                 /\ compressed_files' = NoFiles
            ELSE /\ metadata_doc' = "valid"
                 /\ compressed_files' = NoFiles]_vars

\* an entry has been recorded in the document that replaces an unparsable
\* one, with artifacts in the directory that no entry names any more
C20_Witness ==
    /\ last.op = "mark_as_compressed" /\ last.ret
    /\ last.found = "unparsable"
    /\ metadata_doc = "valid"
    /\ DOMAIN compressed_files = {last.path}
    /\ \E path \in Originals \ {last.path} :
          artifact_name(path, "gzip", 0) \in DOMAIN fs

\* the entries of the ledger whose compressed artifact is not on disk
invalid_entries ==
    {path \in DOMAIN compressed_files :
        compressed_files[path].compressed_path \notin DOMAIN fs}

\* C21: cleanup_invalid_entries removes exactly the entries whose compressed
\* artifact does not exist on disk, keeps every entry whose artifact exists as
\* it was, and returns the number of entries it removed.
C21_CleanupExact ==
    [][last'.op = "cleanup_invalid_entries" =>
         /\ DOMAIN compressed_files' = DOMAIN compressed_files \ invalid_entries
         /\ \A path \in DOMAIN compressed_files' :
               compressed_files'[path] = compressed_files[path]
         /\ last'.ret = Cardinality(invalid_entries)
         /\ fs' = fs]_vars

\* a step in which the loop thread ends
LoopEnds(thread) == threads[thread].pc # "ended" /\ threads'[thread].pc = "ended"

\* C22: after stop_monitoring has returned True, and unless start_monitoring
\* is called again, every monitor loop eventually ends; a loop ends only at
\* its loop test, having read the flag as False (never inside an iteration,
\* between or inside the compressions of a batch), and a loop that has ended
\* begins no further iteration.
C22_StopEndsLoop ==
    /\ [][\A thread \in DOMAIN threads :
            /\ LoopEnds(thread) => (threads[thread].pc = "while" /\ ~monitoring)
            /\ threads[thread].pc = "ended" => threads'[thread].pc = "ended"]_vars
    /\ (last.op = "stop_monitoring" /\ last.ret)
          ~> (alive_loops = {} \/ last.op = "start_monitoring")

\* stop_monitoring has returned True, its join having timed out, while the
\* loop is between two compressions of a batch
C22_Witness ==
    /\ last.op = "stop_monitoring" /\ last.ret
    /\ ~monitoring
    /\ \E thread \in DOMAIN threads :
          /\ threads[thread].pc = "compress"
          /\ compressed_files # NoFiles

\* the thread is in the handler of a failed iteration
InHandler(thread) == thread \in DOMAIN threads /\ threads[thread].pc = "except"

\* C23: an exception raised inside an iteration of _monitor_loop does not end
\* the loop: the thread goes to the handler, sleeps the same monitor_interval
\* as after a successful iteration, comes back to the loop test, and, unless
\* the monitor has been stopped meanwhile, begins a further iteration.
C23_ErrorKeepsLoop ==
    /\ [][\A thread \in DOMAIN threads :
            /\ (/\ last'.op = "_monitor_loop"
                /\ last'.at \in {"cycle", "compress"}
                /\ last'.thread = thread
                /\ last'.raised)
                  => /\ threads'[thread].pc = "except"
                     /\ threads'[thread].seconds = end_of_iteration(monitor_interval).seconds
            /\ threads[thread].pc = "except"
                  => threads'[thread].pc \in {"except", "while"}]_vars
    /\ \A thread \in 1..MaxThreads :
          InHandler(thread) ~> (At(thread, "cycle") \/ ~monitoring)

C23_Witness ==
    /\ monitoring
    /\ last.op = "_monitor_loop" /\ last.at = "except"
    /\ last.seconds = monitor_interval
    /\ threads[last.thread].pc = "while"
    /\ compressed_files # NoFiles

\* the entry the ledger holds for a path, or None
entry_of(files, path) == IF path \in DOMAIN files THEN files[path] ELSE None

\* a step that is a call op(path) that fails: it returns False, or its write
\* of the ledger fails and leaves a document that does not parse
FailsOn(op, path) ==
    /\ last'.op = op
    /\ last'.path = path
    /\ (last'.ret = FALSE \/ metadata_doc' # "valid")

\* C24: a compress_file or decompress_file call that fails on a path leaves
\* the ledger entry of every other path as it was before the call.
C24_FailureFrame ==
    [][\A P \in Originals :
          (FailsOn("compress_file", P) \/ FailsOn("decompress_file", P)) =>
             \A Q \in Originals \ {P} :
                entry_of(compressed_files', Q) = entry_of(compressed_files, Q)]_vars

\* the data of the file of a path is held: the file is at its original path,
\* or the ledger has an entry for the path whose artifact exists
Held(f, files, path) ==
    \/ path \in DOMAIN f
    \/ /\ path \in DOMAIN files
       /\ files[path].compressed_path \in DOMAIN f

\* C25: no data loss: a file that is at its original path or held by the
\* ledger (an entry whose artifact exists) before a call of the engine is so
\* after it, whatever the call and whatever fails in it; with the directory
\* empty at the start and files only arriving, this is the invariant that
\* every file handled is at its path or held by the ledger.
C25_NoDataLoss ==
    [][last'.op # "env" =>
         \A path \in Tracked :
            Held(fs, compressed_files, path) => Held(fs', compressed_files', path)]_vars

\* a step that is a call compress_file(path) in which mark_as_compressed is
\* reached and reports failure: the file is there, the method is supported,
\* the stream is written, and _save_metadata raises
MarkFails(path) ==
    /\ last'.op = "compress_file"
    /\ last'.path = path
    /\ last'.fault \in SaveFaults
    /\ compression_method \in Methods

\* C26: compress_file deletes the original only after its entry has been
\* written: when mark_as_compressed reports failure the original stays at its
\* path and compress_file does not return True.
C26_DeleteAfterEntry ==
    [][\A path \in Tracked :
          MarkFails(path) => (path \in DOMAIN fs' /\ last'.ret # TRUE)]_vars

\* the artifact a finished compress_file has written is the artifact of an
\* entry of the ledger
Referenced(call) ==
    \E k \in DOMAIN compressed_files :
        compressed_files[k].compressed_path = call.compressed_path

\* C27: when the monitor's cycle and the caller's compress_files run at
\* once, no file is compressed by both, and once both have returned, every
\* artifact written by a compress_file that returned True is the
\* compressed_path of a ledger entry.
C27_AtMostOnce ==
    /\ Written = Contexts => calls["monitor"].path # calls["foreground"].path
    /\ BothDone =>
          \A c \in Contexts :
             (calls[c].op = "compress_file" /\ calls[c].ret) => Referenced(calls[c])

\* the conditions of eligibility on the type and the size of a file
AllowedType(file_type) ==
    file_type \in {"txt", "log", "json", "csv", "xml", "yaml", "yml"}
       /\ file_type \notin ignored_extensions
BigEnough(size) == size >= 1024

\* C28: every file scan_directory returns has an extension of the allow-list
\* that is not in the deny-list, a size of at least 1024 bytes, no ledger
\* entry, and exists; the same for every FileInfo _is_compressible accepts,
\* also when the file was removed or replaced after its analysis.
C28_EligibilityFilter ==
    /\ last.op = "scan_directory" =>
          \A i \in DOMAIN last.ret :
             LET path == last.ret[i].path
             IN  /\ path \in DOMAIN fs
                 /\ AllowedType(splitext(path))
                 /\ BigEnough(SizeOf(fs[path].content))
                 /\ path \notin DOMAIN compressed_files
    /\ (last.op = "_is_compressible" /\ last.ret) =>
          /\ last.file_info.path \in DOMAIN fs
          /\ AllowedType(last.file_info.file_type)
          /\ BigEnough(last.file_info.size)
          /\ last.file_info.path \notin DOMAIN compressed_files

\* a scan returned a file out of a directory that also holds a file of
\* another type, a file below the minimum size and a file with an entry
C28_Witness ==
    /\ last.op = "scan_directory"
    /\ last.ret # <<>>
    /\ \E path \in DOMAIN fs :
          ~AllowedType(splitext(path)) /\ BigEnough(SizeOf(fs[path].content))
          /\ splitext(path) \notin ignored_extensions
    /\ \E path \in DOMAIN fs :
          AllowedType(splitext(path))
          /\ (~BigEnough(SizeOf(fs[path].content)) \/ path \in DOMAIN compressed_files)

\* the compressible files of the directory with their scores
ScoredEligible ==
    Scored(calculate_priority_scores(scan_directory(World, SetToSeq(DOMAIN fs)).ret, now))

\* the files of a list
Elements(files) == {files[i] : i \in DOMAIN files}

\* C29: every file get_priority_files returns has a score of at least
\* min_priority; for every max_files the caller gives, 0 included, at most
\* max_files files are returned; and no compressible file that was left out
\* has a higher score than a file that was returned.
C29_Selection ==
    last.op = "get_priority_files" =>
        /\ \A i \in DOMAIN last.ret :
              AtLeast(last.ret[i].priority_score, default_min_priority)
        /\ Len(last.ret) <= last.max_files
        /\ Elements(last.ret) \subseteq Elements(ScoredEligible)
        /\ \A kept \in Elements(last.ret), left \in Elements(ScoredEligible) \ Elements(last.ret) :
              AtLeast(kept.priority_score, left.priority_score)

\* C30: after a decompress_file(path) that returned True the ledger has no
\* entry for the path, the artifact is gone or, its deletion having failed,
\* still what it was, the file at the path holds the decompressed content of
\* the artifact, and the backup the call made is gone.
C30_DecompressPostcondition ==
    [][\A path \in Originals :
          Succeeds("decompress_file", path) =>
             LET entry == compressed_files[path]
                 artifact == entry.compressed_path
             IN  /\ path \notin DOMAIN compressed_files'
                 /\ artifact \notin DOMAIN fs' \/ fs'[artifact] = fs[artifact]
                 /\ path \in DOMAIN fs'
                 /\ fs'[path].content =
                       Decode(entry.compression_method, fs[artifact].content)
                 /\ backup_name(path, now) \notin DOMAIN fs']_vars

\* a step that is a call decompress_file(path) on an entry whose artifact is
\* missing from the disk
MissingArtifactCall(path) ==
    /\ last'.op = "decompress_file"
    /\ last'.path = path
    /\ metadata_doc = "valid"
    /\ path \in DOMAIN compressed_files
    /\ compressed_files[path].compressed_path \notin DOMAIN fs

\* C31: decompress_file on a path whose entry names an artifact that is not
\* on disk returns False and leaves the ledger (the entry included), the
\* file at the original path and every other file as they were.
C31_MissingArtifact ==
    [][\A path \in Originals :
          MissingArtifactCall(path) =>
             /\ last'.ret = FALSE
             /\ compressed_files' = compressed_files
             /\ metadata_doc' = metadata_doc
             /\ fs' = fs]_vars

\* such a call has returned, with a file at the original path and the other
\* path holding its own entry and artifact
C31_Witness ==
    /\ last.op = "decompress_file"
    /\ last.why = "Compressed file not found"
    /\ last.path \in DOMAIN fs
    /\ last.path \in DOMAIN compressed_files
    /\ \E other \in DOMAIN compressed_files \ {last.path} :
          compressed_files[other].compressed_path \in DOMAIN fs

\* a step that is a call decompress_file(path) returning False on a path
\* that has an entry
FailedDecompress(path) ==
    /\ last'.op = "decompress_file"
    /\ last'.path = path
    /\ last'.ret = FALSE
    /\ path \in DOMAIN compressed_files

\* C32: a decompress_file call that returns False leaves the entry of the
\* path in the ledger, and the artifact of the entry on disk, as they were.
C32_FailureKeepsEntry ==
    [][\A path \in Originals :
          FailedDecompress(path) =>
             LET artifact == compressed_files[path].compressed_path
             IN  /\ path \in DOMAIN compressed_files'
                 /\ compressed_files'[path] = compressed_files[path]
                 /\ artifact \in DOMAIN fs =>
                       (artifact \in DOMAIN fs' /\ fs'[artifact] = fs[artifact])]_vars

\* a step that is a call decompress_file(path, verify_integrity=True) on an
\* entry without hash whose artifact decompresses
UnhashedCall(path) ==
    /\ last'.op = "decompress_file"
    /\ last'.path = path
    /\ last'.verify_integrity
    /\ path \in DOMAIN compressed_files
    /\ compressed_files[path].original_hash = NoHash
    /\ compressed_files[path].compressed_path \in DOMAIN fs
    /\ compressed_files[path].compression_method \in Methods
    /\ CanDecode(compressed_files[path].compression_method,
                 fs[compressed_files[path].compressed_path].content)

\* C33: decompress_file with verify_integrity=True on an entry whose hash is
\* empty returns True whenever the decompression step succeeds; and the entry
\* mark_as_compressed writes has an empty hash exactly when the original is
\* not there, or cannot be read, when the entry is recorded.
C33_BlankHashSkipsCheck ==
    [][\A path \in Originals :
          /\ UnhashedCall(path) => last'.ret = TRUE
          /\ (last'.op = "mark_as_compressed" /\ last'.path = path /\ last'.ret) =>
                (compressed_files'[path].original_hash = NoHash
                    <=> (path \notin DOMAIN fs \/ last'.fault = "hash_fails"))]_vars

\* the queries of the ledger
Queries ==
    {"get_compression_stats", "is_compressed", "get_compressed_file_info",
     "get_all_compressed_files"}

\* C34: get_compression_stats, is_compressed, get_compressed_file_info and
\* get_all_compressed_files leave the persisted ledger document as it is,
\* whether it is valid, absent or unparsable when they are called.
C34_QueriesReadOnly ==
    [][last'.op \in Queries =>
         /\ metadata_doc' = metadata_doc
         /\ compressed_files' = compressed_files]_vars

\* C34 as the code has it: a query changes no file and leaves a valid
\* document and its entries as they are; an absent or unparsable document is
\* replaced by an empty valid one by the load of the query.
C34_QueriesKeepValidDocument ==
    [][last'.op \in Queries =>
         /\ fs' = fs
         /\ IF metadata_doc = "valid"
            THEN /\ metadata_doc' = "valid"
                 /\ compressed_files' = compressed_files
            ELSE /\ metadata_doc' = "valid"
                 /\ compressed_files' = NoFiles]_vars

\* a query has listed the two entries of a valid document, which is as before
C34_Witness ==
    /\ last.op = "get_all_compressed_files"
    /\ last.found = "valid"
    /\ Len(last.ret) = 2
    /\ metadata_doc = "valid"
    /\ Cardinality(DOMAIN compressed_files) = 2

---------------------------------------------------------------------------
(* C35: one iteration of the monitoring loop                               *)

\* the usage of the disk is known and at or above the threshold
AtOrAboveThreshold ==
    /\ ~disk.error
    /\ disk.total > 0
    /\ disk.used * 100 >= disk_threshold * disk.total

IterationStep == last'.op = "_monitor_loop" /\ last'.at = "cycle"

\* the files the iteration deleted and the entries it wrote
DeletedByStep == {p \in DOMAIN fs : p \notin DOMAIN fs'}
CreatedByStep == {p \in DOMAIN fs' : p \notin DOMAIN fs}
EntriesByStep == {p \in DOMAIN compressed_files' : p \notin DOMAIN compressed_files}

---------------------------------------------------------------------------
(* C36: methods other than gzip and zlib                                   *)

UnsupportedCompress ==
    /\ last'.op = "compress_file"
    /\ compression_method \notin Methods

UnsupportedDecompress ==
    /\ last'.op = "decompress_file"
    /\ last'.path \in DOMAIN compressed_files
    /\ compressed_files[last'.path].compressed_path \in DOMAIN fs
    /\ compressed_files[last'.path].compression_method \notin Methods

\* C36: compress_file under a configured method other than gzip and zlib
\* returns failure and creates no artifact, writes no entry and leaves the
\* original as it was; decompress_file on an entry whose recorded method is
\* not supported returns failure, creates no backup and changes no file and
\* not the ledger
C36_UnsupportedMethod ==
    [][(UnsupportedCompress \/ UnsupportedDecompress) =>
          /\ last'.ret = FALSE
          /\ fs' = fs
          /\ compressed_files' = compressed_files
          /\ metadata_doc' = metadata_doc]_vars

\* compress_file under bz2 has failed on a file that is there
C36_CompressWitness ==
    /\ last.op = "compress_file"
    /\ compression_method = "bz2"
    /\ last.path \in DOMAIN fs
    /\ last.fault = "none"
    /\ last.ret = FALSE

\* decompress_file has failed over the method of an entry whose artifact and
\* original path are both on disk, where a backup would have been made next
C36_Witness ==
    /\ last.op = "decompress_file"
    /\ last.why = "Unsupported compression method"
    /\ last.path \in DOMAIN compressed_files
    /\ compressed_files[last.path].compression_method = "bz2"
    /\ compressed_files[last.path].compressed_path \in DOMAIN fs
    /\ last.path \in DOMAIN fs
    /\ last.ret = FALSE

---------------------------------------------------------------------------
(* C37: the range of the priority scores                                   *)

InUnitInterval(x) == AtLeast(x, Fraction(0, 1)) /\ AtLeast(Fraction(1, 1), x)

\* C37: every priority score calculate_priority_scores assigns lies between
\* 0 and 1, also for a file whose last access time is later than the time of
\* the call
C37_ScoreInUnitInterval ==
    last.op = "calculate_priority_scores" =>
       \A i \in DOMAIN last.ret : InUnitInterval(last.ret[i].priority_score)

---------------------------------------------------------------------------
(* C38: what the system writes is not compressed again                     *)

\* the names compress_file gives to the artifacts of a path, and the names
\* decompress_file gives to its backups
artifact_names(path) ==
    {artifact_name(path, method, k) : method \in Methods, k \in 0..(MaxCounter + 1)}
backup_names(path) == {backup_name(path, t) : t \in 0..MaxNow}
created_names == UNION {artifact_names(p) \cup backup_names(p) : p \in Originals}

---------------------------------------------------------------------------
(* C39: the backup of decompress_file                                      *)

\* C39: when a decompress_file call has returned, with True or with False,
\* through a failed decompression step, a failed integrity check or an
\* exception, the backup the call made of the file at the original path is
\* not on disk
C39_NoBackupLeft ==
    [][last'.op = "decompress_file" =>
          backup_name(last'.path, now) \notin DOMAIN fs']_vars

====
